---- MODULE Spec2Model ----
(***************************************************************************)
(* Nexus leaderboard: the DynamoDB service layer (DynamoDBService) and the *)
(* Lambda handlers that call it, as a state machine of concurrent requests *)
(* over one table.  Every storage round trip (GetCommand, QueryCommand,    *)
(* PutCommand) is one step of a request, so requests interleave between    *)
(* their reads and writes exactly where the code awaits.                   *)
(***************************************************************************)
EXTENDS Integers, Sequences, FiniteSets, TLC

\* ------------------------------------------------------------------------
\* Bounds of the model
\* ------------------------------------------------------------------------
MaxScore == 1
MaxSubmits == 3
MaxContext == 1
MaxFaults == 1

Procs == {"r1", "r2"}
\* Strings that end up in a key are sequences of tokens: a word, or the "#"
\* that separates the parts of a key.
CyberClash == <<"CyberClash">>
SpaceInvaders == <<"SpaceInvaders">>
Games == {CyberClash}
AllGames == {CyberClash, SpaceInvaders}
\* GameID and TimeFrame are any strings: "Retro#Arcade" played in "2025", and
\* "Retro" played in "Arcade#2025"
RetroArcade == <<"Retro", "#", "Arcade">>
Season == <<"2025">>
Retro == <<"Retro">>
ArcadeSeason == <<"Arcade", "#", "2025">>
Users == {"alice", "bob", "carol"}
CurrentWeek == <<"2025-W28">>
TimeFrames == {CurrentWeek}
Daily == <<"2025-07-13">>
AllTimeFrames == {Daily, CurrentWeek}
\* an optional string left out (undefined, or the empty string: both falsy)
Undefined == <<>>
TimeFrameArgs == {Undefined}
Scores == 0..MaxScore
\* Every submission carries its own display name and metadata (tagged with its
\* arrival number), so that any overwrite of a record shows.
Payload(n) == [PlayerName |-> <<"name", n>>, Metadata |-> <<"meta", n>>]
Unknown == <<"Unknown">>
ContextSizes == 1..MaxContext

\* Optional values (null / undefined in the source) are sequences of length <= 1.
None == <<>>
Some(x) == <<x>>
IsSome(o) == o # <<>>
Val(o) == o[1]

\* ------------------------------------------------------------------------
\* Keys and the table
\* ------------------------------------------------------------------------
\* `LEADERBOARD#${gameId}#${timeFrame}`
leaderboardPK(gameId, timeFrame) ==
    <<"LEADERBOARD", "#">> \o gameId \o <<"#">> \o timeFrame

\* the userId left out of the sort key
userSKBare(userId) == <<"USER", "#">>

\* `USER#${userId}`
userSK(userId) == <<"USER", "#", userId>>

getCurrentWeek == CurrentWeek

\* timeFrame || TimeFrameUtils.getCurrentWeek()
leaderboardTimeFrame(timeFrame) ==
    IF timeFrame = Undefined THEN getCurrentWeek ELSE timeFrame

\* The leaderboards: a game and a time frame each.
Leaderboards ==
    (AllGames \X AllTimeFrames) \cup {<<RetroArcade, Season>>, <<Retro, ArcadeSeason>>}
PKs == {leaderboardPK(l[1], l[2]) : l \in Leaderboards}
Keys == PKs \X Users

KeyOf(gameId, userId, timeFrame) ==
    <<leaderboardPK(gameId, leaderboardTimeFrame(timeFrame)), userId>>

VARIABLES
    table,     \* the LeaderboardService table: (PK, UserID) -> optional item
    clock,     \* the clock read by new Date(): the number of submissions received
    pc,        \* where each request stands
    req,       \* the request each handler is serving
    loc,       \* the handler's local variables
    resp,      \* the response of a finished request
    clean,     \* history: no request wrote into the partition a running query reads
    faults     \* number of storage faults (failed commands) so far

vars == <<table, clock, pc, req, loc, resp, clean, faults>>

\* The items of one partition, as the RankIndex holds them.
PartitionItems(t, pk) ==
    {Val(t[<<pk, u>>]) : u \in {v \in Users : IsSome(t[<<pk, v>>])}}

\* ------------------------------------------------------------------------
\* DynamoDBService.submitScore
\* ------------------------------------------------------------------------
\* existingItem?.Score
PreviousScore(existingItem) ==
    IF IsSome(existingItem) THEN Some(Val(existingItem).Score) ELSE None

\* !previousScore || score > previousScore
IsNewRecord(previousScore, score) ==
    IF ~IsSome(previousScore) THEN TRUE
    ELSE IF Val(previousScore) = 0 THEN TRUE
    ELSE score > Val(previousScore)

NewItem(pk, userId, score, payload, timestamp) ==
    [PK |-> pk, SK |-> userSK(userId), UserID |-> userId, Score |-> score,
     PlayerName |-> payload.PlayerName, Timestamp |-> timestamp,
     Metadata |-> payload.Metadata]

\* ------------------------------------------------------------------------
\* DynamoDBService.getUserRank: the two COUNT queries on the RankIndex
\* ------------------------------------------------------------------------
\* the key condition written 'Score >= :userScore'
CountScoresAtLeast(t, pk, userScore) ==
    Cardinality({i \in PartitionItems(t, pk) : i.Score >= userScore})

\* the key condition written 'Score < :userScore'
CountLowerScores(t, pk, userScore) ==
    Cardinality({i \in PartitionItems(t, pk) : i.Score < userScore})

\* KeyConditionExpression 'PK = :pk AND Score > :userScore', Select COUNT
CountHigherScores(t, pk, userScore) ==
    Cardinality({i \in PartitionItems(t, pk) : i.Score > userScore})

\* the total counted with a condition on the Score, 'Score > :zero'
CountPlayersScoring(t, pk) ==
    Cardinality({i \in PartitionItems(t, pk) : i.Score > 0})

\* KeyConditionExpression 'PK = :pk', Select COUNT
CountPlayers(t, pk) == Cardinality(PartitionItems(t, pk))

\* (higherScoresResult.Count || 0) + 1, totalPlayersResult.Count || 0
RankInfo(higherCount, totalCount, userScore) ==
    [rank |-> higherCount + 1, totalPlayers |-> totalCount, userScore |-> userScore]

\* Math.round((1 - (rank - 1) / totalPlayers) * 100); Math.round is floor(x + 1/2)
Percentile(rank, totalPlayers) ==
    (200 * (totalPlayers - rank + 1) + totalPlayers) \div (2 * totalPlayers)

\* ------------------------------------------------------------------------
\* Requests
\* ------------------------------------------------------------------------
NoLoc == [existingItem |-> None, result |-> None, userEntry |-> None,
          higher |-> 0, rankInfo |-> None, items |-> <<>>,
          userLeaderboards |-> <<>>, enriched |-> <<>>]
NoResp == [status |-> 0]
Idle == [op |-> "idle"]

Init ==
    /\ table = [k \in Keys |-> None]
    /\ clock = 0
    /\ pc = [p \in Procs |-> "idle"]
    /\ req = [p \in Procs |-> Idle]
    /\ loc = [p \in Procs |-> NoLoc]
    /\ resp = [p \in Procs |-> NoResp]
    /\ clean = [p \in Procs |-> TRUE]
    /\ faults = 0

ReqKey(r) == KeyOf(r.gameId, r.userId, r.timeFrame)
ReqPK(r) == leaderboardPK(r.gameId, leaderboardTimeFrame(r.timeFrame))

IsQuery(r) == r.op \in {"percentile", "rank"}

\* Handing back a response takes no part in any other request's work: a
\* finished request is answered before anything else moves.
NoneDone == \A q \in Procs : pc[q] # "done"

\* A request arrives at a free Lambda instance.
Begin(p, r, first) ==
    /\ NoneDone
    /\ pc[p] = "idle"
    /\ req' = [req EXCEPT ![p] = r]
    /\ pc' = [pc EXCEPT ![p] = first]
    /\ UNCHANGED <<table, loc, resp, clean, faults>>

\* The handler returns its response; its locals are gone.
Finish(p, r) ==
    /\ pc' = [pc EXCEPT ![p] = "done"]
    /\ resp' = [resp EXCEPT ![p] = r]
    /\ loc' = [loc EXCEPT ![p] = NoLoc]

\* A storage command either succeeds or fails (throttling, timeout, network).
Outcomes == IF faults < MaxFaults THEN {TRUE, FALSE} ELSE {TRUE}
Fault(ok) == faults' = IF ok THEN faults ELSE faults + 1


Max(a, b) == IF a >= b THEN a ELSE b

\* Another request wrote into partition pk: the query that reads it no longer
\* runs in isolation.
Dirtied(p, pk) ==
    [q \in Procs |->
        IF q # p /\ IsQuery(req[q]) THEN clean[q] /\ ReqPK(req[q]) # pk ELSE clean[q]]

\* ------------------------------------------------------------------------
\* submitScore handler (POST /score): validated request -> submitScore ->
\* getUserRank for the new rank -> response
\* ------------------------------------------------------------------------
StartSubmit(p, gameId, userId, timeFrame, score) ==
    /\ clock < MaxSubmits
    /\ clock' = clock + 1
    /\ Begin(p, [op |-> "submit", gameId |-> gameId, userId |-> userId,
                 timeFrame |-> timeFrame, score |-> score,
                 payload |-> Payload(clock + 1), retryOf |-> None],
             "subGet")

\* DynamoDBService.getUserScore: a fault of the GetCommand is caught and
\* answered with null.
getUserScore(t, key, ok) == IF ok THEN t[key] ELSE None

\* const existingItem = await this.getUserScore(...)
SubmitGet(p) ==
    /\ NoneDone
    /\ pc[p] = "subGet"
    /\ \E ok \in Outcomes :
        /\ loc' = [loc EXCEPT ![p].existingItem = getUserScore(table, ReqKey(req[p]), ok)]
        /\ Fault(ok)
    /\ pc' = [pc EXCEPT ![p] = "subPut"]
    /\ UNCHANGED <<table, clock, req, resp, clean>>

\* return { success: true, previousScore, isNewRecord }
SubmitResult(previousScore, isNewRecord) ==
    [success |-> TRUE, previousScore |-> previousScore, isNewRecord |-> isNewRecord]

\* isNewRecord: the PutCommand succeeds; the handler goes on to getUserRank
SubmitPut(p) ==
    /\ NoneDone
    /\ pc[p] = "subPut"
    /\ LET r == req[p]
           key == ReqKey(r)
           previousScore == PreviousScore(loc[p].existingItem)
       IN /\ IsNewRecord(previousScore, r.score)
          /\ table' = [table EXCEPT ![key] =
                          Some(NewItem(key[1], r.userId, r.score, r.payload, clock))]
          /\ clean' = Dirtied(p, key[1])
          /\ loc' = [loc EXCEPT ![p].result =
                         Some(SubmitResult(previousScore, TRUE))]
    /\ pc' = [pc EXCEPT ![p] = "rankGet"]
    /\ UNCHANGED <<clock, req, resp, faults>>

\* isNewRecord, but the PutCommand fails: submitScore throws, the handler
\* answers 500
SubmitPutFault(p) ==
    /\ NoneDone
    /\ pc[p] = "subPut"
    /\ IsNewRecord(PreviousScore(loc[p].existingItem), req[p].score)
    /\ FALSE \in Outcomes
    /\ Fault(FALSE)
    /\ Finish(p, [status |-> 500])
    /\ UNCHANGED <<table, clock, req, clean>>

\* result.previousScore ? Score - result.previousScore : Score
ScoreImprovement(previousScore, score) ==
    IF IsSome(previousScore) /\ Val(previousScore) # 0
    THEN score - Val(previousScore) ELSE score

\* Message tells a new record from a score that did not improve (isNewRecord)
SubmitResponse(result, score, newRank) ==
    [status |-> 200, Success |-> TRUE, isNewRecord |-> result.isNewRecord,
     NewRank |-> newRank, PreviousScore |-> result.previousScore,
     ScoreImprovement |-> IF result.isNewRecord
                          THEN ScoreImprovement(result.previousScore, score) ELSE 0]

\* not a new record: nothing is written, the handler answers at once
SubmitKeep(p) ==
    /\ NoneDone
    /\ pc[p] = "subPut"
    /\ LET r == req[p]
           previousScore == PreviousScore(loc[p].existingItem)
       IN /\ ~IsNewRecord(previousScore, r.score)
          /\ Finish(p, SubmitResponse(SubmitResult(previousScore, FALSE), r.score, None))
    /\ UNCHANGED <<table, clock, req, clean, faults>>

\* ------------------------------------------------------------------------
\* What each handler does with the outcome of dynamoService.getUserRank
\* ------------------------------------------------------------------------
\* the null check left out: reading rankInfo.rank throws, the handler answers 500
NotFoundStatusUnchecked(rankInfo) == IF IsSome(rankInfo) THEN 200 ELSE 500

\* rankInfo === null => 404 USER_NOT_FOUND (getUserRank and getUserPercentile handlers)
NotFoundStatus(rankInfo) == IF IsSome(rankInfo) THEN 200 ELSE 404

\* the outcome is a pair: thrown (getUserRank rejected) and rankInfo (null or a record)
AfterRank(p, thrown, rankInfo) ==
    LET r == req[p] IN
    IF r.op = "submit"
    THEN \* try { newRank = rankInfo?.rank } catch { warn }
         Finish(p, SubmitResponse(Val(loc[p].result), r.score,
                    IF ~thrown /\ IsSome(rankInfo) THEN Some(Val(rankInfo).rank) ELSE None))
    ELSE IF thrown
    THEN Finish(p, [status |-> 500])
    ELSE IF NotFoundStatus(rankInfo) # 200
    THEN Finish(p, [status |-> NotFoundStatus(rankInfo)])
    ELSE /\ pc' = [pc EXCEPT ![p] = IF r.op = "percentile" THEN "pctGet" ELSE "ctxGet"]
         /\ loc' = [loc EXCEPT ![p].rankInfo = rankInfo]
         /\ resp' = resp

\* ------------------------------------------------------------------------
\* DynamoDBService.getUserRank, one step per storage round trip
\* ------------------------------------------------------------------------
\* const userEntry = await this.getUserScore(...); if (!userEntry) return null
RankGet(p) ==
    /\ NoneDone
    /\ pc[p] = "rankGet"
    /\ \E ok \in Outcomes :
        LET userEntry == getUserScore(table, ReqKey(req[p]), ok) IN
        /\ Fault(ok)
        /\ IF IsSome(userEntry)
           THEN /\ loc' = [loc EXCEPT ![p].userEntry = userEntry]
                /\ pc' = [pc EXCEPT ![p] = "rankHigher"]
                /\ resp' = resp
           ELSE AfterRank(p, FALSE, None)
    /\ UNCHANGED <<table, clock, req, clean>>

\* variant: the COUNT query is sent again when it fails
RankHigherRetrying(p) ==
    /\ NoneDone
    /\ pc[p] = "rankHigher"
    /\ \E ok \in Outcomes :
        /\ Fault(ok)
        /\ IF ok
           THEN /\ loc' = [loc EXCEPT ![p].higher =
                       CountHigherScores(table, ReqPK(req[p]), Val(loc[p].userEntry).Score)]
                /\ pc' = [pc EXCEPT ![p] = "rankTotal"]
           ELSE UNCHANGED <<loc, pc>>
        /\ resp' = resp
    /\ UNCHANGED <<table, clock, req, clean>>

\* the COUNT query 'PK = :pk AND Score > :userScore'
RankHigher(p) ==
    /\ NoneDone
    /\ pc[p] = "rankHigher"
    /\ \E ok \in Outcomes :
        /\ Fault(ok)
        /\ IF ok
           THEN /\ loc' = [loc EXCEPT ![p].higher =
                       CountHigherScores(table, ReqPK(req[p]), Val(loc[p].userEntry).Score)]
                /\ pc' = [pc EXCEPT ![p] = "rankTotal"]
                /\ resp' = resp
           ELSE AfterRank(p, TRUE, None)
    /\ UNCHANGED <<table, clock, req, clean>>

\* the COUNT query 'PK = :pk', then the returned { rank, totalPlayers, userScore }
RankTotal(p) ==
    /\ NoneDone
    /\ pc[p] = "rankTotal"
    /\ \E ok \in Outcomes :
        /\ Fault(ok)
        /\ IF ok
           THEN AfterRank(p, FALSE,
                    Some(RankInfo(loc[p].higher, CountPlayers(table, ReqPK(req[p])),
                                  Val(loc[p].userEntry).Score)))
           ELSE AfterRank(p, TRUE, None)
    /\ UNCHANGED <<table, clock, req, clean>>

\* ------------------------------------------------------------------------
\* getUserPercentile handler (GET /leaderboard/{gameId}/user/{userId}/percentile)
\* ------------------------------------------------------------------------
StartPercentile(p, gameId, userId, timeFrame) ==
    /\ Begin(p, [op |-> "percentile", gameId |-> gameId, userId |-> userId,
                 timeFrame |-> timeFrame], "rankGet")
    /\ clock' = clock

\* the thresholds taken as exclusive
getPercentileBandExclusive(percentile) ==
    IF percentile > 99 THEN "Top 1%"
    ELSE IF percentile > 95 THEN "Top 5%"
    ELSE IF percentile > 90 THEN "Top 10%"
    ELSE IF percentile > 75 THEN "Top 25%"
    ELSE IF percentile > 50 THEN "Top 50%"
    ELSE IF percentile > 25 THEN "Bottom 75%"
    ELSE IF percentile > 10 THEN "Bottom 90%"
    ELSE IF percentile > 5 THEN "Bottom 95%"
    ELSE "Bottom 99%"

\* function getPercentileBand(percentile)
getPercentileBand(percentile) ==
    IF percentile >= 99 THEN "Top 1%"
    ELSE IF percentile >= 95 THEN "Top 5%"
    ELSE IF percentile >= 90 THEN "Top 10%"
    ELSE IF percentile >= 75 THEN "Top 25%"
    ELSE IF percentile >= 50 THEN "Top 50%"
    ELSE IF percentile >= 25 THEN "Bottom 75%"
    ELSE IF percentile >= 10 THEN "Bottom 90%"
    ELSE IF percentile >= 5 THEN "Bottom 95%"
    ELSE "Bottom 99%"

PercentileResponse(r, rankInfo, userEntry) ==
    LET percentile == Percentile(rankInfo.rank, rankInfo.totalPlayers) IN
    [status |-> 200, GameID |-> r.gameId, UserID |-> r.userId,
     PlayerName |-> userEntry.PlayerName, Score |-> rankInfo.userScore,
     Percentile |-> percentile, Rank |-> rankInfo.rank,
     TotalPlayers |-> rankInfo.totalPlayers,
     PercentileBand |-> getPercentileBand(percentile)]

\* const userEntry = await dynamoService.getUserScore(...); 404 when null
PercentileGet(p) ==
    /\ NoneDone
    /\ pc[p] = "pctGet"
    /\ \E ok \in Outcomes :
        LET userEntry == getUserScore(table, ReqKey(req[p]), ok) IN
        /\ Fault(ok)
        /\ IF IsSome(userEntry)
           THEN Finish(p, PercentileResponse(req[p], Val(loc[p].rankInfo), Val(userEntry)))
           ELSE Finish(p, [status |-> 404])
    /\ UNCHANGED <<table, clock, req, clean>>

\* ------------------------------------------------------------------------
\* Queries on the RankIndex (hash PK, range Score) that return items
\* ------------------------------------------------------------------------
Min(a, b) == IF a <= b THEN a ELSE b

\* Every enumeration of the item set S by Score descending.  The index orders
\* by Score only: the order among equal scores is whatever the index yields.
DescOrders(S) ==
    {f \in [1..Cardinality(S) -> S] :
        /\ \A i, j \in 1..Cardinality(S) : i # j => f[i] # f[j]
        /\ \A i, j \in 1..Cardinality(S) : i < j => f[i].Score >= f[j].Score}

\* ScanIndexForward: false, Limit: limit -- the possible result pages
QueryDescending(S, limit) ==
    {SubSeq(f, 1, Min(limit, Len(f))) : f \in DescOrders(S)}

\* Array.prototype.slice(start, end) with 0-based, possibly negative, indexes
jsIndex(i, len) == IF i < 0 THEN Max(len + i, 0) ELSE Min(i, len)
slice(seq, start, end) ==
    SubSeq(seq, jsIndex(start, Len(seq)) + 1, jsIndex(end, Len(seq)))

\* Array.prototype.findIndex(p => p.UserID === userId): 0-based, -1 when absent
findIndex(seq, userId) ==
    IF \E i \in 1..Len(seq) : seq[i].UserID = userId
    THEN (CHOOSE i \in 1..Len(seq) :
            /\ seq[i].UserID = userId
            /\ \A j \in 1..(i - 1) : seq[j].UserID # userId) - 1
    ELSE -1

\* .filter((player, index, self) => index === self.findIndex(p => p.UserID === player.UserID))
RECURSIVE uniqueByUser(_)
uniqueByUser(seq) ==
    IF seq = <<>> THEN <<>>
    ELSE LET init == uniqueByUser(SubSeq(seq, 1, Len(seq) - 1))
             last == seq[Len(seq)]
         IN IF findIndex(init, last.UserID) >= 0 THEN init ELSE Append(init, last)

\* .sort((a, b) => b.Score - a.Score): a stable sort, by insertion
RECURSIVE insertDesc(_, _)
insertDesc(sorted, x) ==
    IF sorted = <<>> THEN <<x>>
    ELSE IF sorted[Len(sorted)].Score >= x.Score THEN Append(sorted, x)
    ELSE Append(insertDesc(SubSeq(sorted, 1, Len(sorted) - 1), x), sorted[Len(sorted)])

RECURSIVE sortByScoreDesc(_)
sortByScoreDesc(seq) ==
    IF seq = <<>> THEN <<>>
    ELSE insertDesc(sortByScoreDesc(SubSeq(seq, 1, Len(seq) - 1)), seq[Len(seq)])

\* getPlayersAroundUserRank: combine, drop duplicates, sort
uniquePlayers(higherItems, lowerItems) ==
    sortByScoreDesc(uniqueByUser(higherItems \o lowerItems))

\* ------------------------------------------------------------------------
\* getUserRank handler with a gameId: getUserRankForLeaderboard
\* (GET /leaderboard/{gameId}/user/{userId}/rank)
\* ------------------------------------------------------------------------
StartRank(p, gameId, userId, timeFrame, contextSize) ==
    /\ Begin(p, [op |-> "rank", gameId |-> gameId, userId |-> userId,
                 timeFrame |-> timeFrame, contextSize |-> contextSize], "rankGet")
    /\ clock' = clock

PlayerRank(player, rank, totalPlayers) ==
    [UserID |-> player.UserID, PlayerName |-> player.PlayerName,
     Score |-> player.Score, Rank |-> rank, TotalPlayers |-> totalPlayers,
     Percentile |-> Percentile(rank, totalPlayers)]

\* surroundingPlayers.slice(0, userIndex).map(...): Rank = rank - (userIndex - index)
playersAbove(surrounding, userIndex, rankInfo) ==
    LET above == slice(surrounding, 0, userIndex) IN
    [i \in 1..Len(above) |->
        PlayerRank(above[i], rankInfo.rank - (userIndex - (i - 1)), rankInfo.totalPlayers)]

\* surroundingPlayers.slice(userIndex + 1).map(...): Rank = rank + index + 1
playersBelow(surrounding, userIndex, rankInfo) ==
    LET below == slice(surrounding, userIndex + 1, Len(surrounding)) IN
    [i \in 1..Len(below) |->
        PlayerRank(below[i], rankInfo.rank + (i - 1) + 1, rankInfo.totalPlayers)]

RankResponse(r, rankInfo, surrounding) ==
    LET userIndex == findIndex(surrounding, r.userId) IN
    [status |-> 200, GameID |-> r.gameId,
     Player |-> PlayerRank([UserID |-> r.userId,
                            PlayerName |-> IF userIndex >= 0
                                           THEN surrounding[userIndex + 1].PlayerName
                                           ELSE Unknown,
                            Score |-> rankInfo.userScore],
                           rankInfo.rank, rankInfo.totalPlayers),
     PlayersAbove |-> playersAbove(surrounding, userIndex, rankInfo),
     PlayersBelow |-> playersBelow(surrounding, userIndex, rankInfo)]

\* getPlayersAroundUserRank: the user's entry; [] when there is none
ContextGet(p) ==
    /\ NoneDone
    /\ pc[p] = "ctxGet"
    /\ \E ok \in Outcomes :
        LET userEntry == getUserScore(table, ReqKey(req[p]), ok) IN
        /\ Fault(ok)
        /\ IF IsSome(userEntry)
           THEN /\ loc' = [loc EXCEPT ![p].userEntry = userEntry]
                /\ pc' = [pc EXCEPT ![p] = "ctxHigher"]
                /\ resp' = resp
           ELSE Finish(p, RankResponse(req[p], Val(loc[p].rankInfo), <<>>))
    /\ UNCHANGED <<table, clock, req, clean>>

\* 'PK = :pk AND Score >= :userScore', descending, Limit contextSize + 1
ContextHigher(p) ==
    /\ NoneDone
    /\ pc[p] = "ctxHigher"
    /\ LET userScore == Val(loc[p].userEntry).Score
           S == {i \in PartitionItems(table, ReqPK(req[p])) : i.Score >= userScore}
       IN \E items \in QueryDescending(S, req[p].contextSize + 1) :
            /\ loc' = [loc EXCEPT ![p].items = items]
            /\ pc' = [pc EXCEPT ![p] = "ctxLower"]
    /\ UNCHANGED <<table, clock, req, resp, clean, faults>>

\* 'PK = :pk AND Score < :userScore', descending, Limit contextSize; then the response
ContextLower(p) ==
    /\ NoneDone
    /\ pc[p] = "ctxLower"
    /\ LET userScore == Val(loc[p].userEntry).Score
           S == {i \in PartitionItems(table, ReqPK(req[p])) : i.Score < userScore}
       IN \E items \in QueryDescending(S, req[p].contextSize) :
            Finish(p, RankResponse(req[p], Val(loc[p].rankInfo),
                                   uniquePlayers(loc[p].items, items)))
    /\ UNCHANGED <<table, clock, req, clean, faults>>

\* either query of getPlayersAroundUserRank fails: it throws, the handler answers 500
ContextFault(p) ==
    /\ NoneDone
    /\ pc[p] \in {"ctxHigher", "ctxLower"}
    /\ FALSE \in Outcomes
    /\ Fault(FALSE)
    /\ Finish(p, [status |-> 500])
    /\ UNCHANGED <<table, clock, req, clean>>

\* the response has been sent; the Lambda instance is free for the next request
Return(p) ==
    /\ pc[p] = "done"
    /\ pc' = [pc EXCEPT ![p] = "idle"]
    /\ req' = [req EXCEPT ![p] = Idle]
    /\ resp' = [resp EXCEPT ![p] = NoResp]
    /\ clean' = [clean EXCEPT ![p] = TRUE]
    /\ UNCHANGED <<table, clock, loc, faults>>

\* The client blindly resends the submission it has just been answered
\* (same body): the handler runs again on the same request.
RetrySubmit(p) ==
    /\ pc[p] = "done"
    /\ req[p].op = "submit"
    /\ resp[p].status = 200
    /\ ~IsSome(req[p].retryOf)
    /\ clock < MaxSubmits
    /\ clock' = clock + 1
    /\ req' = [req EXCEPT ![p].retryOf = Some(Val(table[ReqKey(req[p])]).Score)]
    /\ pc' = [pc EXCEPT ![p] = "subGet"]
    /\ resp' = [resp EXCEPT ![p] = NoResp]
    /\ UNCHANGED <<table, loc, clean, faults>>

\* ------------------------------------------------------------------------
\* Request parameters (utils/response.ts).  A parameter is a string, written
\* as the sequence of its characters; a parameter left out is the empty
\* sequence (undefined and '' are both falsy).
\* ------------------------------------------------------------------------
DigitChars == {"0", "1", "2", "3", "4", "5", "6", "7", "8", "9"}

DigitValue(c) ==
    CASE c = "0" -> 0 [] c = "1" -> 1 [] c = "2" -> 2 [] c = "3" -> 3 [] c = "4" -> 4
      [] c = "5" -> 5 [] c = "6" -> 6 [] c = "7" -> 7 [] c = "8" -> 8 [] c = "9" -> 9

DigitChar(d) == CHOOSE c \in DigitChars : DigitValue(c) = d

RECURSIVE leadingDigits(_)
leadingDigits(str) ==
    IF str = <<>> THEN <<>>
    ELSE IF Head(str) \notin DigitChars THEN <<>>
    ELSE <<Head(str)>> \o leadingDigits(Tail(str))

RECURSIVE digitsValue(_)
digitsValue(digits) ==
    IF digits = <<>> THEN 0
    ELSE 10 * digitsValue(SubSeq(digits, 1, Len(digits) - 1)) + DigitValue(digits[Len(digits)])

\* parseInt(value, 10): an optional sign, then the leading digits; NaN (None)
\* when no digit leads
parseInt(str) ==
    LET negative == IF str = <<>> THEN FALSE ELSE Head(str) = "-"
        digits == leadingDigits(IF negative THEN Tail(str) ELSE str)
    IN IF digits = <<>> THEN None
       ELSE Some(IF negative THEN 0 - digitsValue(digits) ELSE digitsValue(digits))

\* Number.prototype.toString() of an integer
RECURSIVE toString(_)
toString(n) ==
    IF n < 0 THEN <<"-">> \o toString(0 - n)
    ELSE IF n < 10 THEN <<DigitChar(n)>>
    ELSE toString(n \div 10) \o <<DigitChar(n % 10)>>

\* A call either returns a value or throws an error of some class.
Returned(value) == [thrown |-> "none", value |-> value]
Thrown(class) == [thrown |-> class]

\* getPathParameter: throws a plain Error when a required parameter is missing
getPathParameter(pathParameters, paramName, required) ==
    LET value == pathParameters[paramName] IN
    IF required /\ value = <<>> THEN Thrown("Error") ELSE Returned(value)

\* queryStringParameters?.[paramName] || defaultValue
getQueryParameter(queryStringParameters, paramName, defaultValue) ==
    IF queryStringParameters[paramName] # <<>>
    THEN queryStringParameters[paramName] ELSE defaultValue

\* parseNumberParameter: every rejection is a plain Error
parseNumberParameter(value, min, max) ==
    IF value = <<>> THEN Thrown("Error")
    ELSE LET numValue == parseInt(value) IN
         IF ~IsSome(numValue) THEN Thrown("Error")
         ELSE IF Val(numValue) < min THEN Thrown("Error")
         ELSE IF Val(numValue) > max THEN Thrown("Error")
         ELSE Returned(Val(numValue))

\* catch (error): ValidationError => 400, anything else => 500
CatchStatus(class) == IF class = "ValidationError" THEN 400 ELSE 500

\* ------------------------------------------------------------------------
\* getTopPlayers handlers (GET /leaderboard/{gameId}/top/{count}, .../top?count=N,
\* /leaderboard/{gameId}/{timeFrame}/top/{count})
\* ------------------------------------------------------------------------
MinCount == 1
MaxCount == 100
DefaultCount == <<"1", "0">>

\* validateRequest of getTopPlayers.ts
validateRequestTop(event) ==
    LET gameId == getPathParameter(event.pathParameters, "gameId", TRUE)
        countParam == getPathParameter(event.pathParameters, "count", TRUE)
    IN IF gameId.thrown # "none" THEN gameId
       ELSE IF countParam.thrown # "none" THEN countParam
       ELSE IF gameId.value = <<>> THEN Thrown("ValidationError")
       ELSE IF countParam.value = <<>> THEN Thrown("ValidationError")
       ELSE LET count == parseNumberParameter(countParam.value, MinCount, MaxCount) IN
            IF count.thrown # "none" THEN count
            ELSE Returned([gameId |-> gameId.value, count |-> count.value,
                           timeFrame |-> getQueryParameter(event.queryStringParameters,
                                                           "timeFrame", Undefined)])

\* handler: what validateRequest lets through, or the status of the catch block
handlerTop(event) ==
    LET validated == validateRequestTop(event) IN
    IF validated.thrown # "none"
    THEN [status |-> CatchStatus(validated.thrown)]
    ELSE [status |-> 0, request |-> validated.value]

\* handlerWithQueryCount: its own catch answers 500 whatever was thrown
handlerWithQueryCount(event) ==
    LET gameId == getPathParameter(event.pathParameters, "gameId", TRUE) IN
    IF gameId.thrown # "none" THEN [status |-> 500]
    ELSE IF gameId.value = <<>> THEN [status |-> 400]
    ELSE LET countParam == getQueryParameter(event.queryStringParameters, "count",
                                             DefaultCount)
             count == parseNumberParameter(countParam, MinCount, MaxCount)
         IN IF count.thrown # "none" THEN [status |-> 500]
            ELSE handlerTop([event EXCEPT !.pathParameters.gameId = gameId.value,
                                          !.pathParameters.count = toString(count.value)])

\* handlerWithTimeFrame: its own catch answers 500 whatever was thrown
handlerWithTimeFrame(event) ==
    LET gameId == getPathParameter(event.pathParameters, "gameId", TRUE)
        timeFrame == getPathParameter(event.pathParameters, "timeFrame", TRUE)
        countParam == getPathParameter(event.pathParameters, "count", TRUE)
    IN IF gameId.thrown # "none" THEN [status |-> 500]
       ELSE IF timeFrame.thrown # "none" THEN [status |-> 500]
       ELSE IF countParam.thrown # "none" THEN [status |-> 500]
       ELSE IF gameId.value = <<>> THEN [status |-> 400]
       ELSE IF timeFrame.value = <<>> THEN [status |-> 400]
       ELSE IF countParam.value = <<>> THEN [status |-> 400]
       ELSE LET count == parseNumberParameter(countParam.value, MinCount, MaxCount) IN
            IF count.thrown # "none" THEN [status |-> 500]
            ELSE handlerTop([event EXCEPT
                                !.pathParameters.gameId = gameId.value,
                                !.pathParameters.count = toString(count.value),
                                !.queryStringParameters.timeFrame = timeFrame.value])

\* the function API Gateway invokes for each route
TopRoute(route, event) ==
    IF route = "top/{count}" THEN handlerTop(event)
    ELSE IF route = "top?count" THEN handlerWithQueryCount(event)
    ELSE handlerWithTimeFrame(event)

\* The requests sent: the count as a string, present or not, number or not
CountParams == {<<>>, <<"0">>, <<"1">>, <<"2">>, <<"1", "0", "0">>, <<"1", "5", "0">>,
                <<"a">>, <<"2", "a">>}

TopEvent(gameId, count, queryCount, timeFrame) ==
    [pathParameters |-> [gameId |-> gameId, count |-> count, timeFrame |-> timeFrame],
     queryStringParameters |-> [count |-> queryCount, timeFrame |-> Undefined]]

TopRequests ==
    {[op |-> "top", route |-> "top/{count}", event |-> TopEvent(g, c, <<>>, <<>>)] :
        g \in Games \cup {<<>>}, c \in CountParams}
    \cup
    {[op |-> "top", route |-> "top?count", event |-> TopEvent(g, <<>>, c, <<>>)] :
        g \in Games \cup {<<>>}, c \in CountParams}
    \cup
    {[op |-> "top", route |-> "{timeFrame}/top/{count}", event |-> TopEvent(g, c, <<>>, tf)] :
        g \in Games \cup {<<>>}, c \in CountParams, tf \in TimeFrames \cup {<<>>}}

\* the validated request of a top-players request the handler goes on with
TopValidated(r) == TopRoute(r.route, r.event).request
TopPK(r) ==
    leaderboardPK(TopValidated(r).gameId, leaderboardTimeFrame(TopValidated(r).timeFrame))

\* The request arrives; a request that fails validation is answered at once.
StartTop(p, r) ==
    /\ NoneDone
    /\ pc[p] = "idle"
    /\ req' = [req EXCEPT ![p] = r]
    /\ LET entry == TopRoute(r.route, r.event) IN
       IF entry.status # 0
       THEN /\ pc' = [pc EXCEPT ![p] = "done"]
            /\ resp' = [resp EXCEPT ![p] = [status |-> entry.status]]
       ELSE /\ pc' = [pc EXCEPT ![p] = "topQuery"]
            /\ resp' = resp
    /\ UNCHANGED <<table, clock, loc, clean, faults>>

\* convertToPlayerRanks: Rank = startRank + index, TotalPlayers 0, Percentile 0
convertToPlayerRanks(entries, startRank) ==
    [i \in 1..Len(entries) |->
        [UserID |-> entries[i].UserID, PlayerName |-> entries[i].PlayerName,
         Score |-> entries[i].Score, Rank |-> startRank + (i - 1),
         TotalPlayers |-> 0, Percentile |-> 0]]

\* rankedPlayers.forEach(player => { TotalPlayers, Percentile })
withTotalPlayers(rankedPlayers, totalPlayers) ==
    [i \in 1..Len(rankedPlayers) |->
        [rankedPlayers[i] EXCEPT !.TotalPlayers = totalPlayers,
                                 !.Percentile = Percentile(rankedPlayers[i].Rank, totalPlayers)]]

TopResponse(validated, players, totalPlayers) ==
    [status |-> 200, GameID |-> validated.gameId,
     TimeFrame |-> IF validated.timeFrame # <<>> THEN validated.timeFrame
                   ELSE <<"current week">>,
     Players |-> players, TotalPlayers |-> totalPlayers]

\* dynamoService.getTopPlayers: RankIndex query of the partition, descending,
\* Limit count; it throws when the query fails (the handler answers 500)
TopQuery(p) ==
    /\ NoneDone
    /\ pc[p] = "topQuery"
    /\ \E ok \in Outcomes :
        /\ Fault(ok)
        /\ IF ~ok THEN Finish(p, [status |-> 500])
           ELSE \E topPlayersEntries \in
                      QueryDescending(PartitionItems(table, TopPK(req[p])),
                                      TopValidated(req[p]).count) :
                   IF Len(topPlayersEntries) = 0
                   THEN Finish(p, TopResponse(TopValidated(req[p]), <<>>, 0))
                   ELSE /\ loc' = [loc EXCEPT ![p].items = topPlayersEntries]
                        /\ pc' = [pc EXCEPT ![p] = "topCount"]
                        /\ resp' = resp
    /\ UNCHANGED <<table, clock, req, clean>>

\* dynamoService.getTotalPlayerCount in its try/catch: when it throws the
\* players keep TotalPlayers 0 and Percentile 0
TopCount(p) ==
    /\ NoneDone
    /\ pc[p] = "topCount"
    /\ \E ok \in Outcomes :
        /\ Fault(ok)
        /\ LET rankedPlayers == convertToPlayerRanks(loc[p].items, 1)
               totalPlayers == CountPlayers(table, TopPK(req[p]))
           IN IF ok
              THEN Finish(p, TopResponse(TopValidated(req[p]),
                                         withTotalPlayers(rankedPlayers, totalPlayers),
                                         totalPlayers))
              ELSE Finish(p, TopResponse(TopValidated(req[p]), rankedPlayers, 0))
    /\ UNCHANGED <<table, clock, req, clean>>

\* ------------------------------------------------------------------------
\* The UserIndex (hash UserID, range PK) and the cross-leaderboard handlers:
\* getUserScores (GET /user/{userId}/scores), handlerBestScores
\* (GET /user/{userId}/best-scores) and getUserRank without a gameId
\* (GET /user/{userId}/rank)
\* ------------------------------------------------------------------------
\* pk.match(/^LEADERBOARD#(.+)#(.+)$/): the first group is greedy, so the key
\* splits at its last "#" that has something on both sides; null without one
parseLeaderboardPK(pk) ==
    IF Len(pk) < 2 THEN None
    ELSE IF pk[1] # "LEADERBOARD" THEN None
    ELSE IF pk[2] # "#" THEN None
    ELSE LET rest == SubSeq(pk, 3, Len(pk))
             cuts == {j \in 2..(Len(rest) - 1) : rest[j] = "#"}
         IN IF cuts = {} THEN None
            ELSE LET j == CHOOSE k \in cuts : \A m \in cuts : m <= k
                 IN Some([gameId |-> SubSeq(rest, 1, j - 1),
                          timeFrame |-> SubSeq(rest, j + 1, Len(rest))])

\* The partition keys in ascending order: the order of the UserIndex range key.
SortedPKs ==
    <<leaderboardPK(CyberClash, Daily), leaderboardPK(CyberClash, CurrentWeek),
      leaderboardPK(RetroArcade, Season),
      leaderboardPK(SpaceInvaders, Daily), leaderboardPK(SpaceInvaders, CurrentWeek)>>

TableItems(t) == {Val(t[k]) : k \in {key \in Keys : IsSome(t[key])}}

\* a query that stops after its first item
getUserLeaderboardsFirst(t, userId) ==
    LET items == {i \in TableItems(t) : i.UserID = userId}
        pks == SelectSeq(SortedPKs, LAMBDA pk : \E i \in items : i.PK = pk)
    IN [n \in 1..Min(Len(pks), 1) |-> CHOOSE i \in items : i.PK = pks[n]]

\* QueryCommand on the UserIndex, 'UserID = :userId': the items that carry the
\* UserID, by PK ascending
getUserLeaderboards(t, userId) ==
    LET items == {i \in TableItems(t) : i.UserID = userId}
        pks == SelectSeq(SortedPKs, LAMBDA pk : \E i \in items : i.PK = pk)
    IN [n \in 1..Len(pks) |-> CHOOSE i \in items : i.PK = pks[n]]

\* the entry returned once getUserRank has answered (null or a rank)
EnrichedEntry(parsed, entry, rankInfo) ==
    [GameID |-> parsed.gameId, TimeFrame |-> parsed.timeFrame,
     UserID |-> entry.UserID, PlayerName |-> entry.PlayerName, Score |-> entry.Score,
     Rank |-> IF IsSome(rankInfo) THEN Val(rankInfo).rank ELSE 0,
     TotalPlayers |-> IF IsSome(rankInfo) THEN Val(rankInfo).totalPlayers ELSE 0,
     Percentile |-> IF IsSome(rankInfo)
                    THEN Percentile(Val(rankInfo).rank, Val(rankInfo).totalPlayers)
                    ELSE 0,
     LastUpdated |-> entry.Timestamp, Metadata |-> entry.Metadata]

\* { ...entry, GameID: mark, TimeFrame: mark, Rank: 0, TotalPlayers: 0, Percentile: 0 }
MarkedEntry(entry, mark) ==
    [PK |-> entry.PK, SK |-> entry.SK, UserID |-> entry.UserID, Score |-> entry.Score,
     PlayerName |-> entry.PlayerName, Timestamp |-> entry.Timestamp,
     Metadata |-> entry.Metadata, GameID |-> mark, TimeFrame |-> mark,
     Rank |-> 0, TotalPlayers |-> 0, Percentile |-> 0]

\* What stands for an entry that could not be enriched: enrichLeaderboardEntry
\* marks it, getAllUserLeaderboards returns the index item as it is.
UnenrichedEntry(r, entry, mark) ==
    IF r.op = "rankAll" THEN entry ELSE MarkedEntry(entry, mark)

\* filterLeaderboards: a filter left out (or empty) lets everything through
filterLeaderboards(leaderboards, gameId, timeFrame) ==
    SelectSeq(leaderboards,
        LAMBDA entry :
            /\ gameId # Undefined => entry.GameID = gameId
            /\ timeFrame # Undefined => entry.TimeFrame = timeFrame)

\* groupLeaderboardsByGame: GameID -> its entries, in their order
groupLeaderboardsByGame(leaderboards) ==
    [g \in {leaderboards[i].GameID : i \in 1..Len(leaderboards)} |->
        SelectSeq(leaderboards, LAMBDA entry : entry.GameID = g)]

RECURSIVE SumOf(_, _)
SumOf(seq, field) ==
    IF seq = <<>> THEN 0 ELSE seq[Len(seq)][field] + SumOf(SubSeq(seq, 1, Len(seq) - 1), field)

\* Math.round(sum / n) of non-negative integers
RoundedAverage(sum, n) == (2 * sum + n) \div (2 * n)

MinOf(S) == CHOOSE x \in S : \A y \in S : x <= y
MaxOf(S) == CHOOSE x \in S : \A y \in S : x >= y

Summary(leaderboards) ==
    LET n == Len(leaderboards) IN
    [TotalGames |-> Cardinality(DOMAIN groupLeaderboardsByGame(leaderboards)),
     TotalLeaderboards |-> n,
     AverageRank |-> RoundedAverage(SumOf(leaderboards, "Rank"), n),
     AveragePercentile |-> RoundedAverage(SumOf(leaderboards, "Percentile"), n),
     BestRank |-> MinOf({leaderboards[i].Rank : i \in 1..n}),
     BestPercentile |-> MaxOf({leaderboards[i].Percentile : i \in 1..n})]

\* the reduce of handlerBestScores: per GameID the first entry of the highest
\* Score, the games in the order they first appear
RECURSIVE bestScoresByGame(_)
bestScoresByGame(enriched) ==
    IF enriched = <<>> THEN <<>>
    ELSE LET best == bestScoresByGame(SubSeq(enriched, 1, Len(enriched) - 1))
             entry == enriched[Len(enriched)]
         IN IF \E i \in 1..Len(best) : best[i].GameID = entry.GameID
            THEN [i \in 1..Len(best) |->
                     IF best[i].GameID = entry.GameID /\ entry.Score > best[i].Score
                     THEN entry ELSE best[i]]
            ELSE Append(best, entry)

\* the check left out
NoLeaderboardsUnchecked(leaderboards) == FALSE

\* userLeaderboards.length === 0 (allLeaderboards.length === 0): 404 USER_NOT_FOUND
NoLeaderboards(leaderboards) == Len(leaderboards) = 0

\* What each handler answers once every entry went through the enrichment.
CrossResponse(r, enriched) ==
    IF r.op = "scores"
    THEN LET filtered == filterLeaderboards(enriched, r.gameId, r.timeFrame) IN
         IF Len(filtered) = 0 THEN [status |-> 404]
         ELSE [status |-> 200, UserID |-> r.userId, Summary |-> Summary(filtered),
               LeaderboardsByGame |-> groupLeaderboardsByGame(filtered),
               AllLeaderboards |-> filtered,
               Filters |-> [GameID |-> r.gameId, TimeFrame |-> r.timeFrame]]
    ELSE IF r.op = "best"
    THEN [status |-> 200, UserID |-> r.userId,
          BestScores |-> bestScoresByGame(enriched),
          TotalGames |-> Len(bestScoresByGame(enriched))]
    ELSE IF NoLeaderboards(enriched) THEN [status |-> 404]
    ELSE [status |-> 200, UserID |-> r.userId, Leaderboards |-> enriched,
          TotalLeaderboards |-> Len(enriched)]

IsCross(r) == r.op \in {"scores", "best", "rankAll"}

\* The players of the two games, and the players asked about: one who plays
\* and one who never does.
CrossPlayers == {"alice", "bob"}
CrossAsked == {"alice", "carol"}

\* The requests sent: the scores also filtered by a game.
CrossRequests ==
    {[op |-> "scores", userId |-> u, gameId |-> g, timeFrame |-> Undefined] :
        u \in CrossAsked, g \in {Undefined, CyberClash}}
    \cup
    {[op |-> o, userId |-> u, gameId |-> Undefined, timeFrame |-> Undefined] :
        u \in CrossAsked, o \in {"best", "rankAll"}}

StartCross(p, r) ==
    /\ Begin(p, r, "crossList")
    /\ clock' = clock

\* One more entry is done: the next one, or the response after the last.
\* (Promise.all starts every enrichment at once; nothing they do depends on
\* one another, so they are taken in the order of the list.)
AfterEnrich(p, entry) ==
    LET enriched == Append(loc[p].enriched, entry) IN
    IF Len(enriched) = Len(loc[p].userLeaderboards)
    THEN Finish(p, CrossResponse(req[p], enriched))
    ELSE /\ loc' = [loc EXCEPT ![p].enriched = enriched,
                               ![p].userEntry = None, ![p].higher = 0]
         /\ pc' = [pc EXCEPT ![p] = "crossGet"]
         /\ resp' = resp

\* dynamoService.getUserLeaderboards(userId): it throws when the query fails
\* and every handler answers 500; getUserScores and handlerBestScores answer
\* 404 for an empty list, getUserRank after the (empty) enrichment
CrossList(p) ==
    /\ NoneDone
    /\ pc[p] = "crossList"
    /\ \E ok \in Outcomes :
        /\ Fault(ok)
        /\ LET userLeaderboards == getUserLeaderboards(table, req[p].userId) IN
           IF ~ok THEN Finish(p, [status |-> 500])
           ELSE IF req[p].op # "rankAll" /\ NoLeaderboards(userLeaderboards)
           THEN Finish(p, [status |-> 404])
           ELSE IF Len(userLeaderboards) = 0
           THEN Finish(p, CrossResponse(req[p], <<>>))
           ELSE /\ loc' = [loc EXCEPT ![p].userLeaderboards = userLeaderboards]
                /\ pc' = [pc EXCEPT ![p] = "crossGet"]
                /\ resp' = resp
    /\ UNCHANGED <<table, clock, req, clean>>

\* the entry being enriched, and the arguments of its getUserRank call
CrossEntry(p) == loc[p].userLeaderboards[Len(loc[p].enriched) + 1]
CrossParsed(p) == parseLeaderboardPK(CrossEntry(p).PK)
CrossKey(p) ==
    KeyOf(Val(CrossParsed(p)).gameId, CrossEntry(p).UserID, Val(CrossParsed(p)).timeFrame)

\* parseLeaderboardPK, then getUserRank reads the user's entry (null when there
\* is none or the read fails: the entry gets Rank 0, TotalPlayers 0, Percentile 0)
CrossGet(p) ==
    /\ NoneDone
    /\ pc[p] = "crossGet"
    /\ IF ~IsSome(CrossParsed(p))
       THEN /\ AfterEnrich(p, UnenrichedEntry(req[p], CrossEntry(p), Unknown))
            /\ faults' = faults
       ELSE \E ok \in Outcomes :
              LET userEntry == getUserScore(table, CrossKey(p), ok) IN
              /\ Fault(ok)
              /\ IF IsSome(userEntry)
                 THEN /\ loc' = [loc EXCEPT ![p].userEntry = userEntry]
                      /\ pc' = [pc EXCEPT ![p] = "crossHigher"]
                      /\ resp' = resp
                 ELSE AfterEnrich(p, EnrichedEntry(Val(CrossParsed(p)), CrossEntry(p), None))
    /\ UNCHANGED <<table, clock, req, clean>>

\* getUserRank's COUNT of the higher scores; when it fails getUserRank throws
\* and the enrichment's catch answers with the unenriched entry
CrossHigher(p) ==
    /\ NoneDone
    /\ pc[p] = "crossHigher"
    /\ \E ok \in Outcomes :
        /\ Fault(ok)
        /\ IF ok
           THEN /\ loc' = [loc EXCEPT ![p].higher =
                       CountHigherScores(table, CrossKey(p)[1], Val(loc[p].userEntry).Score)]
                /\ pc' = [pc EXCEPT ![p] = "crossTotal"]
                /\ resp' = resp
           ELSE AfterEnrich(p, UnenrichedEntry(req[p], CrossEntry(p), <<"Error">>))
    /\ UNCHANGED <<table, clock, req, clean>>

\* getUserRank's COUNT of the partition, then the enriched entry
CrossTotal(p) ==
    /\ NoneDone
    /\ pc[p] = "crossTotal"
    /\ \E ok \in Outcomes :
        /\ Fault(ok)
        /\ IF ok
           THEN AfterEnrich(p, EnrichedEntry(Val(CrossParsed(p)), CrossEntry(p),
                    Some(RankInfo(loc[p].higher, CountPlayers(table, CrossKey(p)[1]),
                                  Val(loc[p].userEntry).Score))))
           ELSE AfterEnrich(p, UnenrichedEntry(req[p], CrossEntry(p), <<"Error">>))
    /\ UNCHANGED <<table, clock, req, clean>>

\* One Lambda instance serves the submissions while another serves the queries:
\* every query interleaves with the submissions at each of its storage reads.
Writers == {"r1"}
Readers == {"r2"}

Next ==
    \/ \E p \in Writers :
        \/ \E g \in Games, u \in Users, tf \in TimeFrameArgs, s \in Scores :
              StartSubmit(p, g, u, tf, s)
        \/ SubmitGet(p)
        \/ SubmitPut(p)
        \/ SubmitPutFault(p)
        \/ SubmitKeep(p)
        \/ RetrySubmit(p)
    \/ \E p \in Readers :
        \/ \E g \in Games, u \in Users, tf \in TimeFrameArgs : StartPercentile(p, g, u, tf)
        \/ \E g \in Games, u \in Users, tf \in TimeFrameArgs, c \in ContextSizes :
              StartRank(p, g, u, tf, c)
        \/ PercentileGet(p)
        \/ ContextGet(p)
        \/ ContextHigher(p)
        \/ ContextLower(p)
        \/ ContextFault(p)
    \/ \E p \in Procs :
        \/ RankGet(p)
        \/ RankHigher(p)
        \/ RankTotal(p)
        \/ Return(p)

Spec == Init /\ [][Next]_vars

\* Two Lambda instances both serve submissions: the submissions race.
NextRace ==
    \E p \in Procs :
        \/ \E g \in Games, u \in Users, tf \in TimeFrameArgs, s \in Scores :
              StartSubmit(p, g, u, tf, s)
        \/ SubmitGet(p)
        \/ SubmitPut(p)
        \/ SubmitPutFault(p)
        \/ SubmitKeep(p)
        \/ RetrySubmit(p)
        \/ RankGet(p)
        \/ RankHigher(p)
        \/ RankTotal(p)
        \/ Return(p)

SpecRace == Init /\ [][NextRace]_vars

\* A client that waits for each answer before it sends its next request: the
\* requests run one at a time, every storage command may still fail.
Alone == \A q \in Procs : pc[q] = "idle"

NextSerial ==
    \/ \E p \in Writers :
        \/ \E g \in Games, u \in Users, tf \in TimeFrameArgs, s \in Scores :
              Alone /\ StartSubmit(p, g, u, tf, s)
        \/ SubmitGet(p)
        \/ SubmitPut(p)
        \/ SubmitPutFault(p)
        \/ SubmitKeep(p)
    \/ \E p \in Readers :
        \/ \E g \in Games, u \in Users, tf \in TimeFrameArgs :
              Alone /\ StartPercentile(p, g, u, tf)
        \/ \E g \in Games, u \in Users, tf \in TimeFrameArgs, c \in ContextSizes :
              Alone /\ StartRank(p, g, u, tf, c)
        \/ PercentileGet(p)
        \/ ContextGet(p)
        \/ ContextHigher(p)
        \/ ContextLower(p)
        \/ ContextFault(p)
    \/ \E p \in Procs :
        \/ RankGet(p)
        \/ RankHigher(p)
        \/ RankTotal(p)
        \/ Return(p)

SpecSerial == Init /\ [][NextSerial]_vars

\* The same client, asking for the top players between its submissions.
NextTop ==
    \/ \E p \in Writers :
        \/ \E g \in Games, u \in Users, tf \in TimeFrameArgs, s \in Scores :
              Alone /\ StartSubmit(p, g, u, tf, s)
        \/ SubmitGet(p)
        \/ SubmitPut(p)
        \/ SubmitPutFault(p)
        \/ SubmitKeep(p)
    \/ \E p \in Readers :
        \/ \E r \in TopRequests : Alone /\ StartTop(p, r)
        \/ TopQuery(p)
        \/ TopCount(p)
    \/ \E p \in Procs :
        \/ RankGet(p)
        \/ RankHigher(p)
        \/ RankTotal(p)
        \/ Return(p)

SpecTop == Init /\ [][NextTop]_vars

\* The same client, with two games to play, asking for a player's scores across
\* the leaderboards between its submissions.
NextCross ==
    \/ \E p \in Writers :
        \/ \E g \in AllGames, u \in CrossPlayers, tf \in TimeFrameArgs, s \in Scores :
              Alone /\ StartSubmit(p, g, u, tf, s)
        \/ SubmitGet(p)
        \/ SubmitPut(p)
        \/ SubmitPutFault(p)
        \/ SubmitKeep(p)
    \/ \E p \in Readers :
        \/ \E r \in CrossRequests : Alone /\ StartCross(p, r)
        \/ CrossList(p)
        \/ CrossGet(p)
        \/ CrossHigher(p)
        \/ CrossTotal(p)
    \/ \E p \in Procs :
        \/ RankGet(p)
        \/ RankHigher(p)
        \/ RankTotal(p)
        \/ Return(p)

SpecCross == Init /\ [][NextCross]_vars

\* The same client, playing several leaderboards: two games in two time
\* frames, and the two leaderboards whose names hold the separator.
FrameTargets ==
    {<<CyberClash, Undefined>>, <<CyberClash, Daily>>, <<SpaceInvaders, Undefined>>,
     <<RetroArcade, Season>>, <<Retro, ArcadeSeason>>}
FramePlayers == {"alice", "bob"}

NextFrames ==
    \/ \E p \in Writers :
        \/ \E l \in FrameTargets, u \in FramePlayers, s \in Scores :
              Alone /\ StartSubmit(p, l[1], u, l[2], s)
        \/ SubmitGet(p)
        \/ SubmitPut(p)
        \/ SubmitPutFault(p)
        \/ SubmitKeep(p)
    \/ \E p \in Procs :
        \/ RankGet(p)
        \/ RankHigher(p)
        \/ RankTotal(p)
        \/ Return(p)

SpecFrames == Init /\ [][NextFrames]_vars

\* Two Lambda instances serve submissions at the same time, never two for the
\* same leaderboard (game and time frame) and player.
PairTargets == {<<RetroArcade, Season>>, <<Retro, ArcadeSeason>>}
PairPlayers == {"alice", "bob"}

\* the (leaderboard, userId) pair of a submission
ReqPair(r) == <<r.gameId, leaderboardTimeFrame(r.timeFrame), r.userId>>

\* no call that is running has the pair
PairFree(pair) ==
    \A q \in Procs : IF pc[q] = "idle" THEN TRUE ELSE ReqPair(req[q]) # pair

NextPairs ==
    \E p \in Procs :
        \/ \E l \in PairTargets, u \in PairPlayers, s \in Scores :
              PairFree(<<l[1], leaderboardTimeFrame(l[2]), u>>)
              /\ StartSubmit(p, l[1], u, l[2], s)
        \/ SubmitGet(p)
        \/ SubmitPut(p)
        \/ SubmitPutFault(p)
        \/ SubmitKeep(p)
        \/ RankGet(p)
        \/ RankHigher(p)
        \/ RankTotal(p)
        \/ Return(p)

SpecPairs == Init /\ [][NextPairs]_vars

\* ------------------------------------------------------------------------
\* The body of POST /score (handlers/submitScore.ts).  A JSON value is written
\* with its kind; a string is the sequence of its tokens, a number the count
\* of its halves (Score 0.5 is 1 half), so that rounding has something to do.
\* ------------------------------------------------------------------------
JsUndefined == [kind |-> "undefined"]
JsNull == [kind |-> "null"]
JsString(s) == [kind |-> "string", value |-> s]
JsNumber(halves) == [kind |-> "number", halves |-> halves]
JsObject == [kind |-> "object"]

\* typeof null is 'object'
typeof(v) == IF v.kind = "null" THEN "object" ELSE v.kind

\* what `!v` negates
truthy(v) ==
    IF v.kind = "string" THEN v.value # <<>>
    ELSE IF v.kind = "number" THEN v.halves # 0
    ELSE v.kind = "object"

\* String.prototype.trim
RECURSIVE trimStart(_)
trimStart(s) == IF s # <<>> /\ Head(s) = " " THEN trimStart(Tail(s)) ELSE s

RECURSIVE trimEnd(_)
trimEnd(s) ==
    IF s # <<>> /\ s[Len(s)] = " " THEN trimEnd(SubSeq(s, 1, Len(s) - 1)) ELSE s

trim(s) == trimEnd(trimStart(s))

\* Math.round of a count of halves: halves round up
round(halves) == (halves + 1) \div 2

\* the check made on the rounded score
isNegativeRounded(Score) == round(Score.halves) < 0

\* Score < 0
isNegative(Score) == Score.halves < 0

\* a user id is one word; the table knows it by that word
Word(s) == s[1]

\* function validateRequest(body): the validated request, or what it throws
validateRequest(body) ==
    IF ~truthy(body) THEN Thrown("ValidationError")
    ELSE IF ~truthy(body.GameID) \/ typeof(body.GameID) # "string"
    THEN Thrown("ValidationError")
    ELSE IF ~truthy(body.UserID) \/ typeof(body.UserID) # "string"
    THEN Thrown("ValidationError")
    ELSE IF ~truthy(body.PlayerName) \/ typeof(body.PlayerName) # "string"
    THEN Thrown("ValidationError")
    ELSE IF body.Score.kind \in {"undefined", "null"} \/ typeof(body.Score) # "number"
    THEN Thrown("ValidationError")
    ELSE IF isNegative(body.Score) THEN Thrown("ValidationError")
    ELSE IF truthy(body.TimeFrame) /\ typeof(body.TimeFrame) # "string"
    THEN Thrown("ValidationError")
    ELSE IF truthy(body.Metadata) /\ typeof(body.Metadata) # "object"
    THEN Thrown("ValidationError")
    ELSE IF body.TimeFrame.kind \notin {"undefined", "null", "string"}
    THEN \* TimeFrame?.trim on 0 or false: not a function
         Thrown("TypeError")
    ELSE Returned([GameID |-> trim(body.GameID.value),
                   UserID |-> trim(body.UserID.value),
                   PlayerName |-> trim(body.PlayerName.value),
                   Score |-> round(body.Score.halves),
                   TimeFrame |-> IF body.TimeFrame.kind = "string"
                                 THEN trim(body.TimeFrame.value) ELSE Undefined,
                   Metadata |-> body.Metadata])

\* event.body: left out, text that is not JSON, or the value the text denotes
NoBody == [kind |-> "none"]
Malformed == [kind |-> "malformed"]

\* JSON.parse(event.body || '{}')
EmptyObject ==
    [kind |-> "object", GameID |-> JsUndefined, UserID |-> JsUndefined,
     PlayerName |-> JsUndefined, Score |-> JsUndefined, TimeFrame |-> JsUndefined,
     Metadata |-> JsUndefined]

JSONparse(body) ==
    IF body = NoBody THEN Returned(EmptyObject)
    ELSE IF body = Malformed THEN Thrown("SyntaxError")
    ELSE Returned(body)

\* handler, up to the call of dynamoService.submitScore: the response it
\* returns at once (status), or the validated request it goes on with
PostOutcome(event) ==
    IF event.httpMethod = "OPTIONS" THEN [status |-> 200]
    ELSE LET requestBody == JSONparse(event.body) IN
         IF requestBody.thrown # "none" THEN [status |-> 400]
         ELSE LET validatedRequest == validateRequest(requestBody.value) IN
              IF validatedRequest.thrown # "none"
              THEN [status |-> CatchStatus(validatedRequest.thrown)]
              ELSE [status |-> 0, validatedRequest |-> validatedRequest.value]

\* the handler runs on the event it is given; sent is the event the client
\* sent (req remembers the request as it arrived)
HandlerOn(p, event, sent) ==
    LET out == PostOutcome(event) IN
    IF out.status # 0
    THEN /\ NoneDone
         /\ pc[p] = "idle"
         /\ req' = [req EXCEPT ![p] = [op |-> "post", event |-> sent]]
         /\ Finish(p, [status |-> out.status])
         /\ UNCHANGED <<table, clock, clean, faults>>
    ELSE LET v == out.validatedRequest IN
         /\ clock < MaxSubmits
         /\ clock' = clock + 1
         /\ Begin(p, [op |-> "submit", gameId |-> v.GameID, userId |-> Word(v.UserID),
                      timeFrame |-> v.TimeFrame, score |-> v.Score,
                      payload |-> [PlayerName |-> v.PlayerName, Metadata |-> v.Metadata],
                      retryOf |-> None, event |-> sent],
                  "subGet")

\* POST /score arrives
StartPost(p, event) == HandlerOn(p, event, event)

\* The bodies a client sends: the submissions of the test script, with and
\* without blanks around the strings and with half scores, and the same with
\* one field left out or of another type.
ScoreHalves == (0 - 2)..(2 * MaxScore)
PostBody(GameID, UserID, PlayerName, Score, TimeFrame, Metadata) ==
    [kind |-> "object", GameID |-> GameID, UserID |-> UserID, PlayerName |-> PlayerName,
     Score |-> Score, TimeFrame |-> TimeFrame, Metadata |-> Metadata]

ValidBodies ==
    {PostBody(JsString(g), JsString(u), JsString(<<"Player">>), JsNumber(h), tf, m) :
        g \in {CyberClash, <<" ">> \o CyberClash},
        u \in {<<"alice">>, <<"bob", " ">>},
        h \in {x \in ScoreHalves : x >= 0},
        tf \in {JsUndefined},
        m \in {JsObject}}
    \cup {PostBody(JsString(CyberClash), JsString(<<"alice">>), JsString(<<" ", "Player">>),
                   JsNumber(1), JsString(Daily \o <<" ">>), JsUndefined)}

Sample ==
    PostBody(JsString(CyberClash), JsString(<<"alice">>), JsString(<<"Player">>),
             JsNumber(2), JsUndefined, JsUndefined)

NotAString == {JsUndefined, JsNull, JsNumber(2), JsString(<<>>), JsObject}

InvalidBodies ==
    {[Sample EXCEPT !.GameID = v] : v \in NotAString}
    \cup {[Sample EXCEPT !.UserID = v] : v \in NotAString}
    \cup {[Sample EXCEPT !.PlayerName = v] : v \in NotAString}
    \cup {[Sample EXCEPT !.Score = v] :
            v \in {JsUndefined, JsNull, JsString(<<"1">>), JsObject}
                  \cup {JsNumber(h) : h \in {x \in ScoreHalves : x < 0}}}
    \cup {[Sample EXCEPT !.TimeFrame = v] : v \in {JsNumber(2), JsNumber(0), JsObject}}
    \cup {[Sample EXCEPT !.Metadata = v] : v \in {JsString(<<"m">>), JsNumber(2)}}
    \cup {[EmptyObject EXCEPT !.GameID = JsString(CyberClash), !.Score = JsNumber(2)],
          [Sample EXCEPT !.GameID = JsUndefined, !.Score = JsNumber(0 - 1)],
          JsNull}

PostEvents ==
    {[httpMethod |-> "POST", body |-> b] :
        b \in ValidBodies \cup InvalidBodies \cup {NoBody, Malformed}}
    \cup {[httpMethod |-> "OPTIONS", body |-> NoBody]}

NextPost ==
    \E p \in Writers :
        \/ \E event \in PostEvents : Alone /\ StartPost(p, event)
        \/ SubmitGet(p)
        \/ SubmitPut(p)
        \/ SubmitPutFault(p)
        \/ SubmitKeep(p)
        \/ RankGet(p)
        \/ RankHigher(p)
        \/ RankTotal(p)
        \/ Return(p)

SpecPost == Init /\ [][NextPost]_vars

\* ------------------------------------------------------------------------
\* handlerWithPathParams (POST /leaderboard/{gameId}/score): the gameId of the
\* path is written over the GameID of the body, and handler runs on the event
\* with that body.  The text JSON.stringify writes is, as for every body, the
\* value it denotes: a field that is undefined is left out of the text and
\* read back as undefined.
\* ------------------------------------------------------------------------
\* requestBody.GameID = gameId: a property cannot be set on null
setGameID(requestBody, gameId) ==
    IF requestBody.kind = "null" THEN Thrown("TypeError")
    ELSE Returned([requestBody EXCEPT !.GameID = JsString(gameId)])

\* the body handler is called with, or the 400 answered before
modifiedBody(event) ==
    IF event.pathParameters.gameId = Undefined THEN Thrown("ValidationError")
    ELSE LET parsed == JSONparse(event.body) IN
         IF parsed.thrown # "none" THEN parsed
         ELSE setGameID(parsed.value, event.pathParameters.gameId)

handlerWithPathParams(p, event) ==
    LET body == modifiedBody(event) IN
    IF body.thrown # "none"
    THEN /\ NoneDone
         /\ pc[p] = "idle"
         /\ req' = [req EXCEPT ![p] = [op |-> "post", event |-> event]]
         /\ Finish(p, [status |-> 400])
         /\ UNCHANGED <<table, clock, clean, faults>>
    ELSE HandlerOn(p, [event EXCEPT !.body = body.value], event)

\* The requests of a client of the path endpoint: the game of the path, and a
\* body whose GameID is left out, names the same game or names another one.
PathGames == {Undefined, CyberClash, <<" ">> \o SpaceInvaders, Retro}
BodyGames ==
    {JsUndefined, JsNumber(2), JsString(CyberClash), JsString(SpaceInvaders),
     JsString(RetroArcade)}

PathFrame(gameId) == IF gameId = Retro THEN JsString(ArcadeSeason) ELSE JsUndefined

PathEvents ==
    {[httpMethod |-> "POST", pathParameters |-> [gameId |-> g],
      body |-> PostBody(b, JsString(<<u>>), JsString(<<"Player">>), JsNumber(2 * s),
                        PathFrame(g), JsUndefined)] :
        g \in PathGames, b \in BodyGames, u \in {"alice", "bob"}, s \in Scores}
    \cup {[httpMethod |-> "POST", pathParameters |-> [gameId |-> CyberClash], body |-> b] :
            b \in {NoBody, Malformed, JsNull}}

NextPath ==
    \E p \in Writers :
        \/ \E event \in PathEvents : Alone /\ handlerWithPathParams(p, event)
        \/ SubmitGet(p)
        \/ SubmitPut(p)
        \/ SubmitPutFault(p)
        \/ SubmitKeep(p)
        \/ RankGet(p)
        \/ RankHigher(p)
        \/ RankTotal(p)
        \/ Return(p)

SpecPath == Init /\ [][NextPath]_vars

\* The user APIs test: a player with scores in two time frames of one game and
\* in another game asks for the scores, filtered by game and by time frame,
\* and for the best scores.  One request at a time.
FilterTargets ==
    {<<CyberClash, Undefined>>, <<CyberClash, Daily>>, <<SpaceInvaders, Undefined>>}
FilterPlayers == {"alice", "bob"}
FilterAsked == {"alice"}

FilterRequests ==
    {[op |-> "scores", userId |-> u, gameId |-> g, timeFrame |-> tf] :
        u \in FilterAsked, g \in {Undefined, CyberClash}, tf \in {Undefined, Daily}}
    \cup
    {[op |-> "best", userId |-> u, gameId |-> Undefined, timeFrame |-> Undefined] :
        u \in FilterAsked}

NextFilter ==
    \/ \E p \in Writers :
        \/ \E l \in FilterTargets, u \in FilterPlayers, s \in Scores :
              Alone /\ StartSubmit(p, l[1], u, l[2], s)
        \/ SubmitGet(p)
        \/ SubmitPut(p)
        \/ SubmitPutFault(p)
        \/ SubmitKeep(p)
    \/ \E p \in Readers :
        \/ \E r \in FilterRequests : Alone /\ StartCross(p, r)
        \/ CrossList(p)
        \/ CrossGet(p)
        \/ CrossHigher(p)
        \/ CrossTotal(p)
    \/ \E p \in Procs :
        \/ RankGet(p)
        \/ RankHigher(p)
        \/ RankTotal(p)
        \/ Return(p)

SpecFilter == Init /\ [][NextFilter]_vars

\* The band of every percentile the handler can compute: the percentile is an
\* integer from 0 to 100, and the band is part of the response.
Percentiles == 0..100

StartBand(p, percentile) ==
    /\ NoneDone
    /\ pc[p] = "idle"
    /\ req' = [req EXCEPT ![p] = [op |-> "band", percentile |-> percentile]]
    /\ Finish(p, [status |-> 200, Percentile |-> percentile,
                  PercentileBand |-> getPercentileBand(percentile)])
    /\ UNCHANGED <<table, clock, clean, faults>>

NextBand ==
    \E p \in Procs :
        \/ \E percentile \in Percentiles : StartBand(p, percentile)
        \/ Return(p)

SpecBand == Init /\ [][NextBand]_vars

\* The key of every leaderboard a client can name: GameID and TimeFrame are
\* any non-empty strings (validateRequest checks no more), here the strings of
\* one or two tokens and the two names of three that hold the separator.
KeyTokens == {"Retro", "Arcade", "2025", "#"}
KeyNames ==
    {<<a>> : a \in KeyTokens} \cup {<<a, b>> : a, b \in KeyTokens}
        \cup {RetroArcade, ArcadeSeason}

\* the key is built for a submission and parsed back for a report
StartKey(p, gameId, timeFrame) ==
    /\ NoneDone
    /\ pc[p] = "idle"
    /\ req' = [req EXCEPT ![p] = [op |-> "key", gameId |-> gameId, timeFrame |-> timeFrame]]
    /\ Finish(p, [status |-> 200, PK |-> leaderboardPK(gameId, timeFrame),
                  parsed |-> parseLeaderboardPK(leaderboardPK(gameId, timeFrame))])
    /\ UNCHANGED <<table, clock, clean, faults>>

NextKeys ==
    \E p \in Procs :
        \/ \E gameId \in KeyNames, timeFrame \in KeyNames : StartKey(p, gameId, timeFrame)
        \/ Return(p)

SpecKeys == Init /\ [][NextKeys]_vars

\* ------------------------------------------------------------------------
\* Progress.  Every await of a handler resolves or rejects once the storage
\* has answered the command (the storage layer times a command out), and the
\* Lambda runtime hands back the response the handler returns: the
\* continuation of a request that can run does run.  A step of a request is
\* only ever held back for the instant in which another response is handed
\* back (NoneDone), hence strong fairness for the steps.
\* ------------------------------------------------------------------------
\* the storage round trips of request p, in the order the code awaits them:
\* submitScore, then getUserRank, then the percentile handler's own read
HandlerStep(p) ==
    \/ SubmitGet(p)
    \/ SubmitPut(p)
    \/ SubmitPutFault(p)
    \/ SubmitKeep(p)
    \/ RankGet(p)
    \/ RankHigher(p)
    \/ RankTotal(p)
    \/ PercentileGet(p)

\* One instance serves the submissions of a player and one serves the rank
\* queries about that player, at any time during the submissions.
NextLive ==
    \/ \E p \in Writers :
        \/ \E s \in Scores : StartSubmit(p, CyberClash, "alice", Undefined, s)
        \/ RetrySubmit(p)
    \/ \E p \in Readers : StartPercentile(p, CyberClash, "alice", Undefined)
    \/ \E p \in Procs :
        \/ HandlerStep(p)
        \/ Return(p)

SpecLive ==
    /\ Init
    /\ [][NextLive]_vars
    /\ \A p \in Procs : SF_vars(HandlerStep(p)) /\ WF_vars(Return(p))

\* ------------------------------------------------------------------------
\* Properties
\* ------------------------------------------------------------------------
Present(pk) == {u \in Users : IsSome(table[<<pk, u>>])}
ScoreOf(pk, u) == Val(table[<<pk, u>>]).Score
IsSubmit(r) == r.op = "submit"

\* submitScore returns to its handler in this step of request p
SubmitReturns(p) ==
    /\ pc[p] = "subPut"
    /\ pc'[p] = "rankGet" \/ (pc'[p] = "done" /\ resp'[p].status = 200)

\* C1: for every sequence of submitScore calls to one (gameId, timeFrame,
\* userId) the stored Score is the maximum of the scores submitted: the stored
\* Score never decreases from one state to the next, and when a call returns
\* the stored Score is at least the score it submitted.
C1_StoredScoreIsMaximum ==
    [][\A k \in Keys :
        /\ IsSome(table[k]) =>
              IsSome(table'[k]) /\ Val(table'[k]).Score >= Val(table[k]).Score
        /\ \A p \in Procs :
              (IsSubmit(req[p]) /\ ReqKey(req[p]) = k /\ SubmitReturns(p))
                 => IsSome(table'[k]) /\ Val(table'[k]).Score >= req[p].score]_vars

\* C2: two submitScore calls for the same (leaderboard, userId) that interleave
\* leave the higher score stored: with no storage fault anywhere, once a call
\* has been answered and no other call for the pair is running, the stored
\* score is at least the score that call submitted.
C2_ConcurrentSubmitsKeepHigher ==
    \A p \in Procs :
        (/\ pc[p] = "done" /\ IsSubmit(req[p]) /\ resp[p].status = 200
         /\ faults = 0
         /\ \A q \in Procs \ {p} :
               ~(IsSubmit(req[q]) /\ ReqKey(req[q]) = ReqKey(req[p])))
        => Val(table[ReqKey(req[p])]).Score >= req[p].score

\* C3: when a record exists and the submitted score is not strictly greater
\* than the stored score (an equal score and a stored score of 0 included),
\* submitScore answers isNewRecord = false with previousScore = the stored
\* score and leaves the stored record as it is.  Stated for calls that read
\* the stored record as it is (no fault, no write in between).
C3_NotGreaterIsRejected ==
    [][\A p \in Procs :
        (/\ IsSubmit(req[p]) /\ pc[p] = "subPut" /\ pc'[p] # "subPut"
         /\ IsSome(table[ReqKey(req[p])])
         /\ loc[p].existingItem = table[ReqKey(req[p])]
         /\ req[p].score <= Val(table[ReqKey(req[p])]).Score)
        => /\ pc'[p] = "done"
           /\ resp'[p].status = 200
           /\ resp'[p].isNewRecord = FALSE
           /\ resp'[p].PreviousScore = Some(Val(table[ReqKey(req[p])]).Score)
           /\ table'[ReqKey(req[p])] = table[ReqKey(req[p])]]_vars

\* C4: submitScore answers isNewRecord = true exactly when no record existed
\* or the submitted score is strictly greater than the stored one; then
\* previousScore is the score stored before the call (absent when none) and
\* the stored record carries the submitted score.  Stated for calls that read
\* the stored record as it is and whose write does not fail.
C4_AcceptedExactlyWhenNewOrGreater ==
    [][\A p \in Procs :
        (/\ IsSubmit(req[p]) /\ SubmitReturns(p)
         /\ loc[p].existingItem = table[ReqKey(req[p])])
        => LET stored == table[ReqKey(req[p])]
               accepted == pc'[p] = "rankGet"
               shouldAccept == IF IsSome(stored)
                               THEN req[p].score > Val(stored).Score ELSE TRUE
           IN /\ accepted <=> shouldAccept
              /\ accepted =>
                    /\ Val(loc'[p].result).isNewRecord
                    /\ Val(loc'[p].result).previousScore =
                          (IF IsSome(stored) THEN <<Val(stored).Score>> ELSE <<>>)
                    /\ Val(table'[ReqKey(req[p])]).Score = req[p].score
              /\ ~accepted => resp'[p].isNewRecord = FALSE]_vars

\* C5: submission is idempotent: resending the submission that was just
\* answered leaves the stored score as the first application left it.
C5_RetryKeepsStoredScore ==
    \A p \in Procs :
        (/\ pc[p] = "done" /\ IsSubmit(req[p]) /\ resp[p].status = 200
         /\ IsSome(req[p].retryOf))
        => Val(table[ReqKey(req[p])]).Score = Val(req[p].retryOf)

\* C6: for a player with a record, getUserRank returns rank = (number of
\* players of the partition with a strictly greater score) + 1 and
\* totalPlayers = the number of players of the partition (for a query no
\* submission wrote into the partition of while it ran).
C6_RankIsHigherCountPlusOne ==
    \A p \in Procs :
        (IsQuery(req[p]) /\ clean[p] /\ IsSome(loc[p].rankInfo))
        => LET pk == ReqPK(req[p])
               me == ScoreOf(pk, req[p].userId)
               info == Val(loc[p].rankInfo)
           IN /\ info.rank = Cardinality({u \in Present(pk) : ScoreOf(pk, u) > me}) + 1
              /\ info.totalPlayers = Cardinality(Present(pk))
              /\ info.userScore = me

C6_Witness ==
    \E p \in Procs :
        /\ IsQuery(req[p]) /\ clean[p] /\ IsSome(loc[p].rankInfo)
        /\ Val(loc[p].rankInfo).rank = 2
        /\ Val(loc[p].rankInfo).totalPlayers = 3

\* getUserRank on one state of the table
RankOf(pk, u) ==
    RankInfo(CountHigherScores(table, pk, ScoreOf(pk, u)), CountPlayers(table, pk),
             ScoreOf(pk, u)).rank

\* C7: in every reachable state and partition the rank of every player is a
\* positive integer, a player with a higher score never has a larger rank than
\* a player with a lower score, and players with equal scores have equal rank.
C7_RanksFollowScores ==
    \A pk \in PKs : \A u \in Present(pk) :
        /\ RankOf(pk, u) \in Nat \ {0}
        /\ \A v \in Present(pk) :
              /\ ScoreOf(pk, u) > ScoreOf(pk, v) => RankOf(pk, u) <= RankOf(pk, v)
              /\ ScoreOf(pk, u) = ScoreOf(pk, v) => RankOf(pk, u) = RankOf(pk, v)

\* alice above bob and carol, who tie: ranks 1, 2, 2
C7_Witness ==
    \E pk \in PKs :
        /\ Present(pk) = {"alice", "bob", "carol"}
        /\ ScoreOf(pk, "alice") > ScoreOf(pk, "bob")
        /\ ScoreOf(pk, "bob") = ScoreOf(pk, "carol")
        /\ RankOf(pk, "alice") = 1
        /\ RankOf(pk, "bob") = 2
        /\ RankOf(pk, "carol") = 2

\* request p takes a step
Moves(p) == pc'[p] # pc[p] \/ req'[p] # req[p]

C9_ReadFaultIsTransient ==
    [][\A p \in Procs :
        (/\ IsQuery(req[p]) /\ pc[p] # "done" /\ pc'[p] = "done"
         /\ IsSome(table[ReqKey(req[p])]))
        => resp'[p].status # 404]_vars

\* every Percentile of a response
RECURSIVE SeqPercentiles(_)
SeqPercentiles(players) ==
    IF players = <<>> THEN {}
    ELSE {Head(players).Percentile} \cup SeqPercentiles(Tail(players))

ResponsePercentiles(r, rsp) ==
    IF rsp.status # 200 THEN {}
    ELSE IF r.op = "percentile" THEN {rsp.Percentile}
    ELSE IF r.op = "rank"
    THEN {rsp.Player.Percentile} \cup SeqPercentiles(rsp.PlayersAbove)
            \cup SeqPercentiles(rsp.PlayersBelow)
    ELSE {}

\* the player a finished query asked about, with its Rank and Percentile
Answered(r, rsp) ==
    IF r.op = "percentile" THEN [Rank |-> rsp.Rank, Percentile |-> rsp.Percentile]
    ELSE [Rank |-> rsp.Player.Rank, Percentile |-> rsp.Player.Percentile]

\* C10: every Percentile of every response is an integer in [0,100], and a
\* player who alone holds the highest score of the partition gets rank 1 and
\* percentile 100.
C10_PercentileInRange ==
    \A p \in Procs :
        pc[p] = "done" =>
            /\ \A x \in ResponsePercentiles(req[p], resp[p]) : x \in 0..100
            /\ (/\ IsQuery(req[p]) /\ resp[p].status = 200 /\ clean[p]
                /\ \A u \in Present(ReqPK(req[p])) \ {req[p].userId} :
                      ScoreOf(ReqPK(req[p]), u) < ScoreOf(ReqPK(req[p]), req[p].userId))
               => Answered(req[p], resp[p]) = [Rank |-> 1, Percentile |-> 100]

\* ------------------------------------------------------------------------
\* Top players
\* ------------------------------------------------------------------------
\* a finished top-players request that was answered with a page
TopAnswered(p) == pc[p] = "done" /\ req[p].op = "top" /\ resp[p].status = 200

\* every TotalPlayers a response reports a Percentile against
RECURSIVE SeqTotals(_)
SeqTotals(players) ==
    IF players = <<>> THEN {}
    ELSE {Head(players).TotalPlayers} \cup SeqTotals(Tail(players))

PercentileTotals(r, rsp) ==
    IF rsp.status # 200 THEN {}
    ELSE IF r.op = "top" THEN SeqTotals(rsp.Players)
    ELSE IF r.op = "percentile" THEN {rsp.TotalPlayers}
    ELSE IF r.op = "rank"
    THEN {rsp.Player.TotalPlayers} \cup SeqTotals(rsp.PlayersAbove)
            \cup SeqTotals(rsp.PlayersBelow)
    ELSE {}

\* C11: a percentile is never reported against totalPlayers = 0: a request
\* that would have to compute one fails instead of answering with a defaulted
\* percentile, so every Percentile of a successful response comes with
\* TotalPlayers >= 1.
C11_NoPercentileOfZeroPlayers ==
    \A p \in Procs :
        pc[p] = "done" => \A total \in PercentileTotals(req[p], resp[p]) : total >= 1

\* playerId order (string comparison of the ids used)
UserOrder == <<"alice", "bob", "carol">>
Precedes(u, v) ==
    \E i, j \in 1..Len(UserOrder) : i < j /\ UserOrder[i] = u /\ UserOrder[j] = v

\* C12: getTopPlayers returns exactly min(k, players of the partition)
\* entries, all of the partition, by score descending with ties between equal
\* scores by playerId ascending, and no player left out has a higher score
\* than a player returned.
C12_TopIsOrderedPrefix ==
    \A p \in Procs :
        TopAnswered(p) =>
            LET S == PartitionItems(table, TopPK(req[p]))
                P == resp[p].Players
                returned == {P[i].UserID : i \in 1..Len(P)}
            IN /\ Len(P) = Min(TopValidated(req[p]).count, Cardinality(S))
               /\ \A i \in 1..Len(P) :
                     \E item \in S : item.UserID = P[i].UserID /\ item.Score = P[i].Score
               /\ \A i, j \in 1..Len(P) :
                     i < j => \/ P[i].Score > P[j].Score
                              \/ P[i].Score = P[j].Score /\ Precedes(P[i].UserID, P[j].UserID)
               /\ \A item \in S :
                     item.UserID \notin returned =>
                        \A i \in 1..Len(P) : item.Score <= P[i].Score

\* C13: the i-th player of a top-players response has Rank = i, and its
\* Percentile is the percentile of that Rank against the number of players of
\* the partition.
C13_TopRanksArePositions ==
    \A p \in Procs :
        TopAnswered(p) =>
            LET P == resp[p].Players
                total == CountPlayers(table, TopPK(req[p]))
            IN \A i \in 1..Len(P) :
                  /\ P[i].Rank = i
                  /\ P[i].Percentile = Percentile(i, total)

\* the count a top-players request asks for, as its route reads it
RequestedCount(r) ==
    parseInt(IF r.route = "top?count"
             THEN getQueryParameter(r.event.queryStringParameters, "count", DefaultCount)
             ELSE r.event.pathParameters.count)

\* the required parameters other than the count are there
TopAddressed(r) ==
    /\ r.event.pathParameters.gameId # <<>>
    /\ r.route = "{timeFrame}/top/{count}" => r.event.pathParameters.timeFrame # <<>>

\* C14: a top-players request whose count is above the ceiling of 100 is
\* clamped, not rejected: with no storage fault it is answered 200 with at
\* most 100 players.
C14_CountAboveCeilingIsClamped ==
    \A p \in Procs :
        (/\ pc[p] = "done" /\ req[p].op = "top" /\ faults = 0
         /\ TopAddressed(req[p])
         /\ IsSome(RequestedCount(req[p]))
         /\ IF IsSome(RequestedCount(req[p]))
            THEN Val(RequestedCount(req[p])) > MaxCount ELSE FALSE)
        => /\ resp[p].status = 200
           /\ Len(resp[p].Players) <= MaxCount

\* a top-players request that fails validation: a required path parameter is
\* missing, or the count is not a number or below 1
TopInvalid(r) ==
    \/ ~TopAddressed(r)
    \/ (r.route # "top?count" /\ r.event.pathParameters.count = <<>>)
    \/ ~IsSome(RequestedCount(r))
    \/ IF IsSome(RequestedCount(r)) THEN Val(RequestedCount(r)) < MinCount ELSE FALSE

\* C15: a top-players request that fails parameter validation is answered
\* with status 400, never 500.
C15_InvalidTopRequestIs400 ==
    \A p \in Procs :
        (pc[p] = "done" /\ req[p].op = "top" /\ TopInvalid(req[p]))
        => resp[p].status = 400

\* ------------------------------------------------------------------------
\* Context window
\* ------------------------------------------------------------------------
\* a finished context-window request that was answered with a window
WindowAnswered(p) == pc[p] = "done" /\ req[p].op = "rank" /\ resp[p].status = 200

SeqUsers(players) == {players[i].UserID : i \in 1..Len(players)}

\* the other players of the partition the target of request r is in
OtherItems(r) == {i \in PartitionItems(table, ReqPK(r)) : i.UserID # r.userId}

\* C16: for a player present in the partition the window holds the player,
\* the up-to-contextSize nearest players above and the up-to-contextSize
\* nearest players below: neither side has more than contextSize entries, a
\* side with fewer candidates returns all of them, and no player left out of
\* a side is nearer to the target than a player returned on it.
C16_WindowIsNearestNeighbours ==
    \A p \in Procs :
        (WindowAnswered(p) /\ faults = 0) =>
            LET r == req[p]
                me == ScoreOf(ReqPK(r), r.userId)
                above == resp[p].PlayersAbove
                below == resp[p].PlayersBelow
                higher == {i \in OtherItems(r) : i.Score > me}
                lower == {i \in OtherItems(r) : i.Score < me}
            IN /\ Len(above) <= r.contextSize
               /\ Len(below) <= r.contextSize
               /\ Len(above) >= Min(r.contextSize, Cardinality(higher))
               /\ Len(below) >= Min(r.contextSize, Cardinality(lower))
               /\ \A i \in 1..Len(above) : \A o \in higher :
                     o.UserID \notin SeqUsers(above) => o.Score >= above[i].Score
               /\ \A i \in 1..Len(below) : \A o \in lower :
                     o.UserID \notin SeqUsers(below) => o.Score <= below[i].Score

\* distance of a neighbour from the target, in ranks
Distance(player, target) ==
    IF player.Rank >= target.Rank THEN player.Rank - target.Rank
    ELSE target.Rank - player.Rank

\* C17: in every context-window result the target appears exactly once (as
\* Player, in neither PlayersAbove nor PlayersBelow), no player appears twice,
\* every player above has a score >= the target's and every player below a
\* score <= it, PlayersAbove is ordered by strictly decreasing distance from
\* the target and PlayersBelow by strictly increasing distance.
C17_WindowIsWellFormed ==
    \A p \in Procs :
        (WindowAnswered(p) /\ faults = 0) =>
            LET r == req[p]
                target == resp[p].Player
                above == resp[p].PlayersAbove
                below == resp[p].PlayersBelow
            IN /\ target.UserID = r.userId
               /\ r.userId \notin SeqUsers(above) \cup SeqUsers(below)
               /\ SeqUsers(above) \cap SeqUsers(below) = {}
               /\ Cardinality(SeqUsers(above)) = Len(above)
               /\ Cardinality(SeqUsers(below)) = Len(below)
               /\ \A i \in 1..Len(above) : above[i].Score >= target.Score
               /\ \A i \in 1..Len(below) : below[i].Score <= target.Score
               /\ \A i, j \in 1..Len(above) :
                     i < j => Distance(above[i], target) > Distance(above[j], target)
               /\ \A i, j \in 1..Len(below) :
                     i < j => Distance(below[i], target) < Distance(below[j], target)

\* ------------------------------------------------------------------------
\* Cross-leaderboard reports and the UserIndex
\* ------------------------------------------------------------------------
\* the partitions in which player u has a record
Memberships(u) == {pk \in PKs : IsSome(table[<<pk, u>>])}

\* the entries of a cross-leaderboard report
CrossReport(p) ==
    IF req[p].op = "scores" THEN resp[p].AllLeaderboards ELSE resp[p].Leaderboards

\* an unfiltered report (all scores, or the rank across all leaderboards) was answered
ReportAnswered(p) ==
    /\ pc[p] = "done"
    /\ req[p].op \in {"scores", "rankAll"}
    /\ req[p].gameId = Undefined
    /\ resp[p].status = 200

\* entry e is the entry of a partition of player u, with the Score stored there
\* and the Rank and Percentile of getUserRank in that partition
EntryIsRanked(e, u) ==
    /\ "GameID" \in DOMAIN e
    /\ leaderboardPK(e.GameID, e.TimeFrame) \in Memberships(u)
    /\ LET pk == leaderboardPK(e.GameID, e.TimeFrame)
           rankInfo == RankInfo(CountHigherScores(table, pk, ScoreOf(pk, u)),
                                CountPlayers(table, pk), ScoreOf(pk, u))
       IN /\ e.Score = rankInfo.userScore
          /\ e.Rank = rankInfo.rank
          /\ e.Percentile = Percentile(rankInfo.rank, rankInfo.totalPlayers)

\* C18: the cross-leaderboard report of a player holds exactly one entry for
\* each partition in which the player has a record, and each entry carries the
\* Score, Rank and Percentile that the rank query of that partition gives.
C18_ReportMatchesRankQuery ==
    \A p \in Procs :
        ReportAnswered(p) =>
            LET report == CrossReport(p)
                u == req[p].userId
            IN /\ Len(report) = Cardinality(Memberships(u))
               /\ \A i \in 1..Len(report) : EntryIsRanked(report[i], u)
               /\ \A i, j \in 1..Len(report) :
                     i # j => <<report[i].GameID, report[i].TimeFrame>>
                              # <<report[j].GameID, report[j].TimeFrame>>

\* the set of leaderboards the UserIndex reports for player u
leaderboardsFor(u) ==
    LET userLeaderboards == getUserLeaderboards(table, u)
    IN {userLeaderboards[i].PK : i \in 1..Len(userLeaderboards)}

\* request p writes its record (the PutCommand of an accepted submission)
Accepts(p) == pc[p] = "subPut" /\ pc'[p] = "rankGet"

\* C19: the UserIndex reports for a player exactly the partitions in which the
\* player has a record, each once: so it is in the first state (empty for
\* everyone) and around every step that writes the table (the index is read off
\* the table, a step that leaves the table alone leaves the index alone).  The
\* set gains the partition of an accepted submission and nothing else changes
\* it: an accepted submission to a partition already in it leaves it as it is,
\* and it stays empty for a player who never submitted.
C19_UserIndexIsMembership ==
    [][(table' # table \/ \E p \in Procs : Accepts(p)) =>
        \A u \in Users :
            /\ leaderboardsFor(u) = Memberships(u)
            /\ leaderboardsFor(u)' = Memberships(u)'
            /\ Len(getUserLeaderboards(table', u)) = Cardinality(Memberships(u)')
            /\ IF \E p \in Procs : Accepts(p) /\ req[p].userId = u
               THEN \A p \in Procs :
                       (Accepts(p) /\ req[p].userId = u)
                       => Memberships(u)' = Memberships(u) \cup {ReqPK(req[p])}
               ELSE Memberships(u)' = Memberships(u)]_vars

C19_Witness ==
    /\ Cardinality(leaderboardsFor("alice")) = 2
    /\ Cardinality(leaderboardsFor("bob")) = 1
    /\ leaderboardsFor("carol") = {}
    /\ clock = MaxSubmits
    /\ \E p \in Procs : pc[p] = "done" /\ IsSubmit(req[p]) /\ resp[p].status = 200
                        /\ req[p].userId = "alice" /\ resp[p].isNewRecord

\* C20: a cross-leaderboard query (all scores, best scores, rank across all
\* leaderboards) for a player with no record in any partition never answers
\* with a report: it answers 404 NotFound as soon as the UserIndex was read (a
\* read of the index that fails is answered as the storage's failure, 500).
C20_NoRecordIsNotFound ==
    [][\A p \in Procs :
        (/\ IsCross(req'[p]) /\ pc[p] # "done" /\ pc'[p] = "done"
         /\ Memberships(req'[p].userId) = {})
        => resp'[p].status = IF faults' = faults THEN 404 ELSE 500]_vars

C20_Witness ==
    \E p \in Procs :
        /\ pc[p] = "done" /\ req[p].op = "best"
        /\ Memberships(req[p].userId) = {}
        /\ resp[p].status = 404
        /\ Memberships("alice") # {}
        /\ faults = 0

\* ------------------------------------------------------------------------
\* Partitions
\* ------------------------------------------------------------------------
\* the leaderboard a request addresses
ReqLeaderboard(r) == <<r.gameId, leaderboardTimeFrame(r.timeFrame)>>

\* what the queries of one leaderboard see: its records, its player count, its
\* top players (every page the index may yield) and each player's rank
LeaderboardView(t, l) ==
    LET pk == leaderboardPK(l[1], l[2]) IN
    [records |-> PartitionItems(t, pk),
     count |-> CountPlayers(t, pk),
     top |-> QueryDescending(PartitionItems(t, pk), Cardinality(Users)),
     ranks |-> [u \in Users |->
                  IF IsSome(t[<<pk, u>>])
                  THEN CountHigherScores(t, pk, Val(t[<<pk, u>>]).Score) + 1
                  ELSE 0]]

\* C21: a submission to one leaderboard (a game and a time frame) leaves the
\* records, the player count, the top players and every player's rank of every
\* other leaderboard (another game, or another time frame of the game) as
\* they were.
C21_PartitionsAreIndependent ==
    [][\A p \in Procs :
        (IsSubmit(req[p]) /\ Moves(p) /\ table' # table) =>
            \A l \in Leaderboards :
                l # ReqLeaderboard(req[p])
                => LeaderboardView(table', l) = LeaderboardView(table, l)]_vars

\* call p leaves submitScore: it writes, fails to write, or keeps the record
Decides(p) == pc[p] = "subPut" /\ pc'[p] # "subPut"

\* C22: submitScore calls that run at the same time for distinct (leaderboard,
\* userId) pairs do not interfere: with no storage fault, the record a call
\* read is still the stored record of its pair when the call writes or keeps
\* it, and the call changes no record but that of its pair, so its result and
\* the record it leaves are those of the calls run one after another.
C22_DistinctPairsDoNotInterfere ==
    [][\A p \in Procs :
        (Decides(p) /\ faults = 0) =>
            /\ loc[p].existingItem = table[ReqKey(req[p])]
            /\ \A q \in Procs \ {p} :
                  IF IsSubmit(req[q]) /\ pc[q] # "done"
                  THEN ReqPair(req[q]) # ReqPair(req[p])
                       => table'[ReqKey(req[q])] = table[ReqKey(req[q])]
                  ELSE TRUE]_vars

\* the records of player u in partition pk
RecordsOf(t, pk, u) == {i \in PartitionItems(t, pk) : i.SK = userSK(u)}

\* C23: no operation removes a record: across every step that writes the
\* table, every record that was there is still there, no partition's player
\* count decreases, and a partition holds at most one record of a player.
C23_RecordsAreNeverRemoved ==
    [][table' # table =>
        \A pk \in PKs :
            /\ CountPlayers(table', pk) >= CountPlayers(table, pk)
            /\ \A u \in Users :
                  /\ IsSome(table[<<pk, u>>]) => IsSome(table'[<<pk, u>>])
                  /\ Cardinality(RecordsOf(table', pk, u)) <= 1]_vars

C23_Witness ==
    \E pk \in PKs :
        /\ Present(pk) = {"alice", "bob"}
        /\ Val(table[<<pk, "bob">>]).Timestamp = 2
        /\ Val(table[<<pk, "alice">>]).Timestamp = MaxSubmits
        /\ Val(table[<<pk, "alice">>]).Score = MaxScore
        /\ \A p \in Procs : pc[p] = "idle"

\* the validation failures of a submission: no body or a field missing or of
\* the wrong type, or a negative score
NotStringField(v) == v.kind # "string"
FailsValidation(event) ==
    /\ event.httpMethod = "POST"
    /\ event.body # Malformed
    /\ LET body == JSONparse(event.body).value IN
       IF body.kind # "object" THEN TRUE
       ELSE \/ NotStringField(body.GameID)
            \/ NotStringField(body.UserID)
            \/ NotStringField(body.PlayerName)
            \/ body.Score.kind # "number"
            \/ body.Score.halves < 0

Arrives(p) == pc[p] = "idle" /\ pc'[p] # "idle"

\* C24: a submission that fails validation (GameID, UserID or PlayerName
\* missing or not a string, Score missing, not a number or negative) is
\* answered 400 in the step it arrives in: no storage command is issued (none
\* can fail) and the table is unchanged.
C24_InvalidSubmissionIsRejected ==
    [][\A p \in Procs :
        (Arrives(p) /\ FailsValidation(req'[p].event)) =>
            /\ pc'[p] = "done"
            /\ resp'[p].status = 400
            /\ table' = table
            /\ faults' = faults]_vars

C24_Witness ==
    \E p \in Procs :
        /\ pc[p] = "done"
        /\ req[p].op = "post"
        /\ FailsValidation(req[p].event)
        /\ req[p].event.body.kind = "object"
        /\ req[p].event.body.Score = JsNumber(0 - 1)
        /\ req[p].event.body.GameID.kind = "string"
        /\ resp[p].status = 400
        /\ \E k \in Keys : IsSome(table[k])

\* the leaderboards that hold a record of player u
Played(u) ==
    {l \in Leaderboards : IsSome(table[<<leaderboardPK(l[1], l[2]), u>>])}

\* those of them a filter lets through
Matching(r) ==
    {l \in Played(r.userId) :
        /\ r.gameId # Undefined => l[1] = r.gameId
        /\ r.timeFrame # Undefined => l[2] = r.timeFrame}

Replied(p, op) == pc[p] = "done" /\ req[p].op = op

\* C25: an answered user-scores query (no other request running) returns one
\* entry for each record of the player in a leaderboard that matches the
\* filter, with the record's score and no other entry; none matching is
\* 404; the groups are keyed by the GameIDs of the entries and each entry is
\* in the group of its own GameID, once, and in no other.
C25_FilteredScoresAreExact ==
    \A p \in Procs :
        (Replied(p, "scores") /\ resp[p].status # 500) =>
            LET r == req[p]
                all == resp[p].AllLeaderboards
                groups == resp[p].LeaderboardsByGame
            IN IF Matching(r) = {} THEN resp[p].status = 404
               ELSE /\ resp[p].status = 200
                    /\ Len(all) = Cardinality(Matching(r))
                    /\ \A l \in Matching(r) :
                          \E i \in 1..Len(all) :
                              /\ all[i].GameID = l[1]
                              /\ all[i].TimeFrame = l[2]
                              /\ all[i].UserID = r.userId
                              /\ all[i].Score =
                                    Val(table[<<leaderboardPK(l[1], l[2]), r.userId>>]).Score
                    /\ DOMAIN groups = {all[i].GameID : i \in 1..Len(all)}
                    /\ \A g \in DOMAIN groups :
                          groups[g] = SelectSeq(all, LAMBDA e : e.GameID = g)

\* the games in which player u has a record
GamesPlayed(u) == {l[1] : l \in Played(u)}
BestOf(u, g) ==
    MaxOf({Val(table[<<leaderboardPK(l[1], l[2]), u>>]).Score :
              l \in {m \in Played(u) : m[1] = g}})

\* C26: an answered best-scores query (no other request running) returns one
\* entry for each game in which the player has a record and no other, its
\* score the highest of the player's scores over the game's time frames.
C26_BestScoreIsMaxPerGame ==
    \A p \in Procs :
        (Replied(p, "best") /\ resp[p].status # 500) =>
            LET u == req[p].userId IN
            IF GamesPlayed(u) = {} THEN resp[p].status = 404
            ELSE LET best == resp[p].BestScores IN
                 /\ resp[p].status = 200
                 /\ Len(best) = Cardinality(GamesPlayed(u))
                 /\ \A g \in GamesPlayed(u) :
                       \E i \in 1..Len(best) :
                           best[i].GameID = g /\ best[i].Score = BestOf(u, g)

\* the nine bands from best to worst, and the lowest percentile of each
BandNames ==
    <<"Top 1%", "Top 5%", "Top 10%", "Top 25%", "Top 50%",
      "Bottom 75%", "Bottom 90%", "Bottom 95%", "Bottom 99%">>
BandFloors == <<99, 95, 90, 75, 50, 25, 10, 5, 0>>
BandRank(band) == CHOOSE i \in 1..Len(BandNames) : BandNames[i] = band
InBand(n, i) == n >= BandFloors[i] /\ (i > 1 => n < BandFloors[i - 1])

\* C27: every integer percentile from 0 to 100 gets the one band whose
\* inclusive lower threshold it reaches and whose upper neighbour's it does
\* not (Bottom 99% below 5); every one of the nine bands is the band of some
\* percentile, and a higher percentile never gets a worse band.
C27_BandsByThreshold ==
    /\ \A i \in 1..Len(BandNames) : \E n \in Percentiles : getPercentileBand(n) = BandNames[i]
    /\ \A p \in Procs :
          (pc[p] = "done" /\ req[p].op = "band") =>
              LET n == req[p].percentile
                  band == resp[p].PercentileBand
              IN /\ \E i \in 1..Len(BandNames) : band = BandNames[i]
                 /\ InBand(n, BandRank(band))
                 /\ \A m \in Percentiles :
                       m >= n => BandRank(getPercentileBand(m)) <= BandRank(band)

C27_Witness ==
    \E p \in Procs :
        /\ pc[p] = "done"
        /\ req[p].op = "band"
        /\ req[p].percentile = 5
        /\ resp[p].PercentileBand = "Bottom 95%"

CountAtOrBelow(t, pk, s) == Cardinality({i \in PartitionItems(t, pk) : i.Score <= s})

\* C28: in every partition, for every score s, the players above s and the
\* players at or below s are all the players of the partition; and the rank
\* and the total of an answered percentile query (no other request running)
\* split the partition the same way at the player's score.
C28_CountsPartitionTheTotal ==
    /\ \A pk \in PKs, s \in Scores :
          CountHigherScores(table, pk, s) + CountAtOrBelow(table, pk, s)
              = CountPlayers(table, pk)
    /\ \A p \in Procs :
          (pc[p] = "done" /\ req[p].op = "percentile" /\ resp[p].status = 200) =>
              (resp[p].Rank - 1) + CountAtOrBelow(table, ReqPK(req[p]), resp[p].Score)
                  = resp[p].TotalPlayers

C28_Witness ==
    \E p \in Procs :
        /\ pc[p] = "done"
        /\ req[p].op = "percentile"
        /\ resp[p].status = 200
        /\ resp[p].Rank = 2
        /\ resp[p].TotalPlayers = 3
        /\ CountAtOrBelow(table, ReqPK(req[p]), resp[p].Score) = 2

\* C30: submitScore writes only on the strength of a lookup that succeeded:
\* in the step that puts a record, the existing record the call holds is the
\* one stored, and a stored score is not replaced by a lower one.
C30_NoWriteAfterFailedLookup ==
    [][\A p \in Procs :
        Accepts(p) =>
            LET key == ReqKey(req[p]) IN
            /\ loc[p].existingItem = table[key]
            /\ IsSome(table[key]) => Val(table'[key]).Score >= Val(table[key]).Score]_vars

\* the rank and the total that getUserRank gave to an answered query
RankResult(p) ==
    IF req[p].op = "percentile"
    THEN [rank |-> resp[p].Rank, totalPlayers |-> resp[p].TotalPlayers]
    ELSE [rank |-> resp[p].Player.Rank, totalPlayers |-> resp[p].Player.TotalPlayers]

\* C31: the rank and the total of every answered rank or percentile query
\* satisfy 1 <= rank <= totalPlayers, whatever submissions ran between the
\* query's reads.
C31_RankWithinTotal ==
    \A p \in Procs :
        (pc[p] = "done" /\ IsQuery(req[p]) /\ resp[p].status = 200) =>
            /\ 1 <= RankResult(p).rank
            /\ RankResult(p).rank <= RankResult(p).totalPlayers

\* every entry of a context window: the target and the players around it
WindowEntries(rsp) ==
    {rsp.Player} \cup {rsp.PlayersAbove[i] : i \in 1..Len(rsp.PlayersAbove)}
                 \cup {rsp.PlayersBelow[i] : i \in 1..Len(rsp.PlayersBelow)}

\* C32: every entry of an answered context window (the target, the players
\* above and the players below) has 1 <= Rank <= TotalPlayers, ties with the
\* target's score included.
C32_WindowRanksWithinTotal ==
    \A p \in Procs :
        (pc[p] = "done" /\ req[p].op = "rank" /\ resp[p].status = 200) =>
            \A e \in WindowEntries(resp[p]) : 1 <= e.Rank /\ e.Rank <= e.TotalPlayers

\* C33: the partition key round-trips and is injective: the key built from a
\* non-empty gameId and timeFrame parses back to exactly that pair, and no
\* other pair of names has the same key.
C33_KeyRoundTrips ==
    \A p \in Procs :
        (pc[p] = "done" /\ req[p].op = "key") =>
            /\ resp[p].parsed = Some([gameId |-> req[p].gameId, timeFrame |-> req[p].timeFrame])
            /\ \A g \in KeyNames, tf \in KeyNames :
                  leaderboardPK(g, tf) = resp[p].PK
                  => g = req[p].gameId /\ tf = req[p].timeFrame

\* the entries of an answered cross-leaderboard request
CrossEntries(p) ==
    IF req[p].op = "scores" THEN resp[p].AllLeaderboards
    ELSE IF req[p].op = "best" THEN resp[p].BestScores
    ELSE resp[p].Leaderboards

\* C34: every entry of a successful cross-leaderboard response (user scores,
\* best scores, rank across all leaderboards) has Rank >= 1, TotalPlayers >= 1
\* and the GameID and TimeFrame of a partition that holds a record of the
\* player: no entry stands for a rank that could not be computed.
C34_CrossEntriesAreRanked ==
    \A p \in Procs :
        (pc[p] = "done" /\ IsCross(req[p]) /\ resp[p].status = 200) =>
            \A i \in 1..Len(CrossEntries(p)) :
                LET e == CrossEntries(p)[i] IN
                IF {"Rank", "TotalPlayers", "GameID", "TimeFrame"} \subseteq DOMAIN e
                THEN /\ e.Rank >= 1
                     /\ e.TotalPlayers >= 1
                     /\ leaderboardPK(e.GameID, e.TimeFrame) \in Memberships(req[p].userId)
                ELSE FALSE

\* C35: in every successful top-players response TotalPlayers is at least the
\* number of players returned, also when the count read fails.
C35_TotalCoversPlayers ==
    \A p \in Procs :
        TopAnswered(p) => resp[p].TotalPlayers >= Len(resp[p].Players)

\* C36: ranks move only in the expected direction.  In the step in which a
\* submission is accepted (its record is written), the rank number of its
\* player, if the player had a record, does not increase and the rank number
\* of no other player of the partition decreases; every other step of a
\* submission changes no player's rank.
C36_RanksMoveAsExpected ==
    [][\A p \in Procs :
        (IsSubmit(req[p]) /\ Moves(p)) =>
            IF Accepts(p)
            THEN LET pk == ReqPK(req[p])
                     u == req[p].userId
                 IN /\ u \in Present(pk) => RankOf(pk, u)' <= RankOf(pk, u)
                    /\ \A v \in Present(pk) \ {u} : RankOf(pk, v)' >= RankOf(pk, v)
            ELSE \A pk \in PKs : \A v \in Present(pk) : RankOf(pk, v)' = RankOf(pk, v)]_vars

\* the submit handler answers request p with a success in this step
SubmitAnswered(p) ==
    IsSubmit(req[p]) /\ pc[p] # "done" /\ pc'[p] = "done" /\ resp'[p].status = 200

\* C37: the improvement the handler computes for an accepted submission is
\* Score minus the score stored when the record is written, and Score when
\* no record is stored; the response of an accepted submission reports
\* Score - PreviousScore, or Score when it carries no PreviousScore; the
\* response of a submission that is not accepted reports 0 and no NewRank.
C37_ScoreImprovementIsDifference ==
    [][\A p \in Procs :
        /\ Accepts(p) =>
              ScoreImprovement(Val(loc'[p].result).previousScore, req[p].score) =
                  IF IsSome(table[ReqKey(req[p])])
                  THEN req[p].score - Val(table[ReqKey(req[p])]).Score
                  ELSE req[p].score
        /\ SubmitAnswered(p) =>
              IF resp'[p].isNewRecord
              THEN resp'[p].ScoreImprovement =
                      IF IsSome(resp'[p].PreviousScore)
                      THEN req[p].score - Val(resp'[p].PreviousScore)
                      ELSE req[p].score
              ELSE resp'[p].ScoreImprovement = 0 /\ resp'[p].NewRank = None]_vars

\* the position of a request in its handler: the awaits in program order
Stage(label) ==
    CASE label = "idle" -> 0
      [] label = "subGet" -> 1
      [] label = "subPut" -> 2
      [] label = "rankGet" -> 3
      [] label = "rankHigher" -> 4
      [] label = "rankTotal" -> 5
      [] label \in {"pctGet", "ctxGet"} -> 6
      [] label = "ctxHigher" -> 7
      [] label = "ctxLower" -> 8
      [] label = "done" -> 9

Running(p) == pc[p] \notin {"idle", "done"}

\* C38: every started call returns: a request inside its handler reaches its
\* response.  Every storage round trip moves exactly one request forward in
\* its handler, so a submitScore call performs one record read (subGet) and
\* then at most one write (subPut, the only step that changes the table) and
\* a rank query at most three reads; and the next step of a request inside
\* its handler can be taken whatever position the other request is in.
C38_EveryCallReturns ==
    /\ \A p \in Procs : Running(p) ~> (pc[p] = "done")
    /\ [][/\ \E p \in Procs :
               /\ pc'[p] # pc[p]
               /\ \A q \in Procs \ {p} : pc'[q] = pc[q]
               /\ Running(p) => Stage(pc'[p]) > Stage(pc[p])
          /\ table' # table => \E p \in Procs : pc[p] = "subPut" /\ pc'[p] # "subPut"]_vars
    /\ [](\A p \in Procs : (Running(p) /\ NoneDone) => ENABLED HandlerStep(p))

\* a submission has been answered while the query of the other request is
\* between its reads
C38_Witness ==
    \E p, q \in Procs :
        /\ pc[p] = "done" /\ IsSubmit(req[p]) /\ resp[p].status = 200
        /\ resp[p].isNewRecord
        /\ pc[q] = "rankTotal" /\ IsQuery(req[q])

\* the partitions of a game: one for each time frame
FramesKnown == AllTimeFrames \cup {Season, ArcadeSeason}
PartitionsOf(gameId) == {leaderboardPK(gameId, tf) : tf \in FramesKnown}

\* request p came in through the path endpoint
ByPath(r) == r.op = "submit" /\ "pathParameters" \in DOMAIN r.event

\* the partitions of the GameID the body carried, when it names another game
\* than the path
BodyPartitions(event) ==
    IF event.body.GameID.kind = "string"
       /\ trim(event.body.GameID.value) # trim(event.pathParameters.gameId)
    THEN PartitionsOf(trim(event.body.GameID.value)) ELSE {}

\* C39: a submission through the path endpoint works on a partition of the
\* gameId of the path and on no partition of the GameID its body carried:
\* the record it looks up and writes lies there, and the table changes
\* nowhere else while it runs.
C39_PathGameDecides ==
    [][\A p \in Procs :
        ByPath(req'[p]) =>
            LET sent == req'[p].event IN
            /\ ReqPK(req'[p]) \in PartitionsOf(trim(sent.pathParameters.gameId))
            /\ ReqPK(req'[p]) \notin BodyPartitions(sent)
            /\ \A k \in Keys :
                  table'[k] # table[k] =>
                      /\ k[1] \in PartitionsOf(trim(sent.pathParameters.gameId))
                      /\ k[1] \notin BodyPartitions(sent)]_vars
====
